---------------------------- MODULE Spec2Model ----------------------------
(***************************************************************************)
(* A model of bosun-ai/derrick: the workspace registry (src/server.rs)     *)
(* behind the HTTP boundary (src/http_server.rs), the Git-aware Workspace  *)
(* with its internal mutex (src/workspace.rs) and the backend controllers' *)
(* command execution (src/workspace_controllers/*.rs).                     *)
(*                                                                         *)
(* Three specifications share the variables:                               *)
(*   Spec     the registry driven by concurrent HTTP handler tasks         *)
(*   SpecWs   one Workspace used by concurrent callers                     *)
(*   SpecCtl  one controller executing one command under every outcome     *)
(*            of the environment                                           *)
(* Each specification leaves the variables of the others at their initial  *)
(* values.                                                                 *)
(***************************************************************************)
EXTENDS Integers, Sequences, FiniteSets, TLC

(***************************************************************************)
(* Bounds of the model.                                                    *)
(***************************************************************************)
NumTasks == 2      \* concurrent HTTP handler tasks
MaxIds == 2        \* uuids the registry can draw in one run
MaxRan == 1        \* controller commands executed in one run
NumCallers == 2    \* concurrent users of one Workspace

Tasks == 1..NumTasks
NoTask == NumTasks + 1     \* no task: a value outside Tasks
Ids == 1..MaxIds
NoId == MaxIds + 3         \* no id: a value outside Ids and Roots

\* Inputs of write_file / read_file.
Paths == {"a.txt"}
Contents == {"x"}
NoFile == "absent"

\* The shared directory <cwd>/tmp/<name>-<pid> of every local-temp controller
\* of one host process; a docker controller's root is its own container,
\* named here by the id of the workspace it backs.
LocalDir == MaxIds + 1
Roots == Ids \cup {LocalDir}
NoRoot == MaxIds + 2       \* no controller

Modes == {"local", "docker"}
\* The values --provisioning-mode is documented with.
ProvisioningModes == Modes \cup {"remote_nats"}

WsOps == {"cmd", "cmd_with_output", "write_file", "read_file"}
Ops == {"create", "destroy", "list"} \cup WsOps

VARIABLES
  mode,        \* provisioning mode the provider was built for
  workspaces,  \* Server.workspaces: id -> root of the controller
  files,       \* root -> path -> content
  ran,         \* root -> number of commands the controller was given
  serverLock,  \* task holding the Mutex<Server> guard, or NoTask
  lockQ,       \* tasks waiting in lock().await, in arrival order
  pc,          \* task -> position in its handler
  req,         \* task -> the request its handler serves
  resp,        \* the response just sent, with the request it answers
               \* (observed until the next handler enters the server)
  issued,      \* ids drawn from Uuid::new_v4 so far
  returned,    \* ids returned by a successful create_workspace
  removed      \* ids for which destroy_workspace returned true

VARIABLES
  integrationTesting, \* built with feature "integration_testing"
  github,             \* GithubSession::try_new() succeeds
  wsHolder,           \* caller owning the Workspace's MutexGuard, or NoCaller
  wsWaiters,          \* callers suspended in self.0.lock().await, oldest first
  caller,             \* caller -> position in the Workspace method it runs
  repoUrl,            \* WorkspaceInner.repository.url: "plain" or "token"
  arrivals            \* callers with a lock request not yet released, oldest
                      \* first (history, for the ordering property)

wsVars == <<integrationTesting, github, wsHolder, wsWaiters, caller, repoUrl,
            arrivals>>

VARIABLES
  world,    \* the controller, the command it is given and what the
            \* environment does with it
  cmdRes,   \* what cmd returned, or NoOut
  cwoRes    \* what cmd_with_output returned, or NoOut

ctlVars == <<world, cmdRes, cwoRes>>

VARIABLES
  fsBackend,  \* the controller whose files are modelled
  dirs,       \* the directories that exist, as component sequences
  disk,       \* location -> content of the file there, or NoFile
  latest,     \* location a caller named -> content of the most recent
              \* successful write_file naming it, or NoFile
  fsLast,     \* the last controller call and what it did
  stopped     \* stop() has returned Ok: the container is removed

fsVars == <<fsBackend, dirs, disk, latest, fsLast, stopped>>

VARIABLES
  hostEnv,         \* the environment of the server process
  whitelisted_env, \* LocalTempSyncController.whitelisted_env
  callEnv,         \* the env argument of the last command, or NoEnv
  procEnv          \* the environment the last command was run with, or NoEnv

envVars == <<hostEnv, whitelisted_env, callEnv, procEnv>>

VARIABLES
  gitBackend,      \* the controller
  repository_url,  \* Workspace: inner.repository.url
  hasRepo,         \* the repository directory holds a .git directory
  origin,          \* the URL of remote origin in the on-disk Git config, or
                   \* NoOrigin
  logs,            \* the log lines emitted so far
  gitDone,         \* the last operation and its result
  gitRun,          \* the steps the last operation took
  defaultBranch    \* the default branch of the remote repository

gitVars == <<gitBackend, repository_url, hasRepo, origin, logs, gitDone,
             gitRun, defaultBranch>>

VARIABLES
  imgEnv,     \* the env map given to every provision call
  images,     \* the image names the Docker daemon knows
  setupRuns,  \* how often the setup script has been run
  cloneRuns,  \* how often the repositories have been provisioned
  imgKeys,    \* the context_hash computed by each provision call, in order
  imgRes,     \* the result of each provision call, in order
  imgRuns     \* what each provision call did, in order

imgVars == <<imgEnv, images, setupRuns, cloneRuns, imgKeys, imgRes, imgRuns>>

\* Derivation keys: two (context, env) inputs and the keys computed from them.
VARIABLES
  keyIn,          \* the two inputs, each a context and the entries of its env
  keyOut          \* the keys of the two inputs, << >> before they are computed

keyVars == <<keyIn, keyOut>>

\* Concurrent builds: provision calls of several host processes on one
\* Docker daemon, all with the same context and env.
VARIABLES
  builders,       \* per call: the step it is at, its result, what it met
  tags            \* the image names the Docker daemon knows

bldVars == <<builders, tags>>

\* Repository construction: a clone url, what the builder makes of it, and
\* what the builder makes of the url it made.
VARIABLES
  repoIn,         \* the clone_url given to Repository::from_url
  repoOut,        \* the result of build(), NoBuild before it
  repoAgain       \* the result of build() from the url of repoOut

repoVars == <<repoIn, repoOut, repoAgain>>

\* One provision call of a provider: the repositories of the context in
\* order, then the setup script.
VARIABLES
  prvMode,        \* the provisioning mode
  prvLog,         \* the commands run so far: what for, and in which world
  prvRes          \* the result of the call, "none" while it runs

prvVars == <<prvMode, prvLog, prvRes>>

\* The containers of the Docker provider and their controllers.
VARIABLES
  containers      \* per container: its use, the container's state, its
                  \* controller, the removal task spawned at the drop, and
                  \* where force-removals were issued from

ctrVars == <<containers>>

regVars == <<mode, workspaces, files, ran, serverLock, lockQ, pc, req, resp,
             issued, returned, removed>>

NoPath == "none"

NoReq == [op |-> "none", id |-> NoId, path |-> NoPath, content |-> NoFile,
          ctl |-> NoRoot, present |-> FALSE, afterDestroy |-> FALSE]

\* The request as its handler reads it: POST /workspaces and GET /workspaces
\* carry no id, only write_file and read_file a path, only write_file a
\* content.  ctl is the controller the method's lookup binds.  present and
\* afterDestroy record, for the properties, whether id was registered when
\* the server method was entered and whether destroy_workspace(id) had
\* returned true before.
Req(op, id, path, content) ==
  [op |-> op,
   id |-> IF op \in {"create", "list"} THEN NoId ELSE id,
   path |-> IF op \in {"write_file", "read_file"} THEN path ELSE NoPath,
   content |-> IF op = "write_file" THEN content ELSE NoFile,
   ctl |-> NoRoot,
   present |-> op \notin {"create", "list"} /\ id \in DOMAIN workspaces,
   afterDestroy |-> op \in WsOps /\ id \in removed]

\* A response: kind is "id" (create), "true" / "false" (destroy), "list",
\* "ok", "notfound", "err" or "panic".
Res(kind, id, ids, content) ==
  [kind |-> kind, id |-> id, ids |-> ids, content |-> content]

NoResp == [req |-> NoReq, res |-> Res("none", NoId, {}, NoFile)]

EmptyFs == [p \in Paths |-> NoFile]

\* get_provider: a provider for "local" and "docker", an error for every
\* other mode.
Unsupported == "Unsupported provisioning mode"

GetProviderOrLocal(m) ==
  IF m = "docker" THEN "DockerProvider" ELSE "LocalTempSyncProvider"

GetProvider(m) ==
  IF m = "local" THEN "LocalTempSyncProvider"
  ELSE IF m = "docker" THEN "DockerProvider"
  ELSE Unsupported

InitReg ==
  /\ mode \in ProvisioningModes
  /\ workspaces = << >>
  /\ files = [r \in Roots |-> EmptyFs]
  /\ ran = [r \in Roots |-> 0]
  /\ serverLock = NoTask
  /\ lockQ = << >>
  /\ pc = [t \in Tasks |-> "idle"]
  /\ req = [t \in Tasks |-> NoReq]
  /\ resp = NoResp
  /\ issued = {}
  /\ returned = {}
  /\ removed = {}

----------------------------------------------------------------------------
(***************************************************************************)
(* The controllers, as far as the registry sees them.                      *)
(***************************************************************************)

\* WorkspaceController::init: both backends return Ok(()).
ControllerInit(m) == "ok"

\* WorkspaceController::stop: the local-temp backend is todo!() and panics;
\* the container backend force-removes the container, which the daemon may
\* refuse.
ControllerStopOutcomes(m) ==
  IF m = "local" THEN {"panic"} ELSE {"ok", "err"}

\* The root a freshly provisioned controller works in.
ProvisionRoot(m, id) == IF m = "local" THEN LocalDir ELSE id

\* uuid::Uuid::new_v4(): 122 random bits.  The draw is taken to differ from
\* every id drawn before in this run; ids being opaque, the least unused one
\* stands for it.
NewV4 == CHOOSE i \in Ids \ issued : \A j \in Ids \ issued : i <= j

\* A lookup that falls back to some registered workspace.
RegistryGetOrAny(ws, id) ==
  IF id \in DOMAIN ws THEN ws[id]
  ELSE IF DOMAIN ws # {} THEN ws[CHOOSE i \in DOMAIN ws : TRUE]
  ELSE NoRoot

\* HashMap::get(id): the controller registered under id, if any.
RegistryGet(ws, id) == IF id \in DOMAIN ws THEN ws[id] ELSE NoRoot

\* An insert that starts the map afresh.
RegistryInsertOnly(ws, id, root) == (id :> root)

\* HashMap::insert(id, controller).
RegistryInsert(ws, id, root) == (id :> root) @@ ws

\* A remove that leaves the entry.
RegistryRemoveNothing(ws, id) == ws

\* HashMap::remove(id).
RegistryRemove(ws, id) == [i \in DOMAIN ws \ {id} |-> ws[i]]

\* A destroy that takes the entry out whatever stop() returned.
RemoveWhateverStopReturned(ws, id, outcome) == RegistryRemove(ws, id)

\* destroy_workspace: controller.stop().await? comes before
\* self.workspaces.remove(id), which an Err or a panic of stop() skips.
RemoveAfterStop(ws, id, outcome) ==
  IF outcome = "ok" THEN RegistryRemove(ws, id) ELSE ws

\* HashMap::keys().cloned().collect().
RegistryKeys(ws) == DOMAIN ws

TotalRan == LET Sum[S \in SUBSET Roots] ==
                  IF S = {} THEN 0
                  ELSE LET r == CHOOSE x \in S : TRUE
                       IN ran[r] + Sum[S \ {r}]
            IN Sum[Roots]

----------------------------------------------------------------------------
(***************************************************************************)
(* The HTTP handlers.  Each is                                             *)
(*   rqctx.context().lock().await.<server method>(...).await               *)
(* so the MutexGuard<Server>, a temporary of that statement, lives until   *)
(* the server method has returned.                                         *)
(***************************************************************************)

\* A request arrives and its handler reaches lock().await.  main creates
\* and serves the server only after get_provider(..).await? gave a provider.
Request(t) ==
  /\ GetProvider(mode) # Unsupported
  /\ pc[t] = "idle"
  /\ pc' = [pc EXCEPT ![t] = "waiting"]
  /\ lockQ' = Append(lockQ, t)
  /\ UNCHANGED <<mode, workspaces, files, ran, serverLock, req, resp, issued,
                 returned, removed>>

\* tokio::sync::Mutex hands the lock to the longest-waiting task, which
\* enters the server method with the arguments of its request.
Acquire(t, op, id, path, content) ==
  /\ serverLock = NoTask
  /\ lockQ # << >>
  /\ Head(lockQ) = t
  /\ op \in {"cmd", "cmd_with_output"} => TotalRan < MaxRan
  /\ op = "create" => issued # Ids
  /\ serverLock' = t
  /\ lockQ' = Tail(lockQ)
  /\ pc' = [pc EXCEPT ![t] = "locked"]
  /\ req' = [req EXCEPT ![t] = Req(op, id, path, content)]
  /\ resp' = NoResp
  /\ UNCHANGED <<mode, workspaces, files, ran, issued, returned, removed>>

\* The handler's statement ends: the response is sent and the guard dropped.
Finish(t, r) ==
  /\ resp' = [req |-> req[t], res |-> r]
  /\ pc' = [pc EXCEPT ![t] = "idle"]
  /\ req' = [req EXCEPT ![t] = NoReq]
  /\ serverLock' = NoTask

\* Server::create_workspace up to the await of provider.provision.
CreateStart(t) ==
  /\ pc[t] = "locked"
  /\ req[t].op = "create"
  /\ pc' = [pc EXCEPT ![t] = "provision"]
  /\ UNCHANGED <<mode, workspaces, files, ran, serverLock, lockQ, req, resp,
                 issued, returned, removed>>

\* Server::create_workspace from the return of provision: `?` on its error,
\* then the uuid, controller.init()? and the insert.
CreateFinish(t, provisioned) ==
  /\ pc[t] = "provision"
  /\ IF provisioned
       THEN LET id == NewV4
            IN /\ issued' = issued \cup {id}
               /\ IF ControllerInit(mode) = "ok"
                    THEN /\ workspaces' =
                              RegistryInsert(workspaces, id,
                                             ProvisionRoot(mode, id))
                         /\ returned' = returned \cup {id}
                         /\ Finish(t, Res("id", id, {}, NoFile))
                    ELSE /\ UNCHANGED <<workspaces, returned>>
                         /\ Finish(t, Res("err", NoId, {}, NoFile))
       ELSE /\ UNCHANGED <<workspaces, issued, returned>>
            /\ Finish(t, Res("err", NoId, {}, NoFile))
  /\ UNCHANGED <<mode, files, ran, lockQ, removed>>

\* Server::destroy_workspace up to the await of controller.stop(); an absent
\* id returns Ok(false) at once.
DestroyStart(t) ==
  /\ pc[t] = "locked"
  /\ req[t].op = "destroy"
  /\ LET controller == RegistryGet(workspaces, req[t].id)
     IN IF controller # NoRoot
          THEN /\ pc' = [pc EXCEPT ![t] = "stopping"]
               /\ req' = [req EXCEPT ![t].ctl = controller]
               /\ UNCHANGED <<serverLock, resp>>
          ELSE Finish(t, Res("false", NoId, {}, NoFile))
  /\ UNCHANGED <<mode, workspaces, files, ran, lockQ, issued, returned,
                 removed>>

\* Server::destroy_workspace from the return of stop(): `?` on its error,
\* else remove the entry and return Ok(true).  A panic in stop() unwinds the
\* handler task, which drops the guard.
DestroyFinish(t, outcome) ==
  /\ pc[t] = "stopping"
  /\ outcome \in ControllerStopOutcomes(mode)
  /\ IF outcome = "ok"
       THEN /\ workspaces' = RemoveAfterStop(workspaces, req[t].id, outcome)
            /\ files' = [files EXCEPT ![req[t].ctl] = EmptyFs]
            /\ removed' = removed \cup {req[t].id}
            /\ Finish(t, Res("true", NoId, {}, NoFile))
       ELSE /\ workspaces' = RemoveAfterStop(workspaces, req[t].id, outcome)
            /\ UNCHANGED <<files, removed>>
            /\ Finish(t, Res(outcome, NoId, {}, NoFile))
  /\ UNCHANGED <<mode, ran, lockQ, issued, returned>>

\* Server::list_workspaces.
ListWorkspaces(t) ==
  /\ pc[t] = "locked"
  /\ req[t].op = "list"
  /\ Finish(t, Res("list", NoId, RegistryKeys(workspaces), NoFile))
  /\ UNCHANGED <<mode, workspaces, files, ran, lockQ, issued, returned,
                 removed>>

\* Server::cmd / cmd_with_output / write_file / read_file up to the await of
\* the controller call; an absent id returns "Workspace not found".
WsStart(t) ==
  /\ pc[t] = "locked"
  /\ req[t].op \in WsOps
  /\ LET controller == RegistryGet(workspaces, req[t].id)
     IN IF controller # NoRoot
          THEN /\ pc' = [pc EXCEPT ![t] = "exec"]
               /\ req' = [req EXCEPT ![t].ctl = controller]
               /\ UNCHANGED <<serverLock, resp>>
          ELSE Finish(t, Res("notfound", NoId, {}, NoFile))
  /\ UNCHANGED <<mode, workspaces, files, ran, lockQ, issued, returned,
                 removed>>

\* The controller call returns and the server method passes its result on.
\* ok says whether the backend carried the operation out.
WsFinish(t, ok) ==
  /\ pc[t] = "exec"
  /\ LET root == req[t].ctl
         op == req[t].op
     IN CASE op \in {"cmd", "cmd_with_output"} ->
               /\ ran' = [ran EXCEPT ![root] = @ + 1]
               /\ UNCHANGED files
               /\ Finish(t, Res(IF ok THEN "ok" ELSE "err", NoId, {}, NoFile))
          [] op = "write_file" ->
               /\ files' = IF ok
                             THEN [files EXCEPT ![root][req[t].path] =
                                                  req[t].content]
                             ELSE files
               /\ UNCHANGED ran
               /\ Finish(t, Res(IF ok THEN "ok" ELSE "err", NoId, {}, NoFile))
          [] op = "read_file" ->
               /\ UNCHANGED <<files, ran>>
               /\ Finish(t, IF ok /\ files[root][req[t].path] # NoFile
                              THEN Res("ok", NoId, {},
                                       files[root][req[t].path])
                              ELSE Res("err", NoId, {}, NoFile))
  /\ UNCHANGED <<mode, workspaces, lockQ, issued, returned, removed>>


----------------------------------------------------------------------------
(***************************************************************************)
(* The Workspace (src/workspace.rs): Arc<Mutex<WorkspaceInner>> shared by  *)
(* concurrent callers.  A method is a sequence of phases; a phase takes    *)
(* the mutex, awaits its steps in order with the guard alive, and drops    *)
(* the guard where the function that took it returns.  Two phases of init  *)
(* and create_merge_request await a Git-hosting call with no guard.        *)
(***************************************************************************)
Callers == 1..NumCallers
NoCaller == NumCallers + 1

WorkspaceMethods ==
  {"init", "cmd", "cmd_with_output", "write_file", "read_file", "repository",
   "create_branch", "commit", "push", "create_merge_request", "teardown"}

\* The nested calls of teardown that are followed.
MaxDepth == 2

Idle == [pc |-> "idle", op |-> "none", phase |-> "none", step |-> 1,
         present |-> FALSE]

\* The awaited steps of a phase, in order: "ctl" is a call of the backend
\* controller, "rpc" a call of the Git-hosting integration.
Steps(phase) ==
  CASE phase = "adapter_init" -> <<"ctl">>
    [] phase = "repository_exists" -> <<"ctl">>
    [] phase = "configure_git" ->
         IF github THEN <<"rpc", "ctl", "ctl">> ELSE <<"ctl", "ctl">>
    [] phase = "update_remote" -> <<"ctl">>
    [] phase = "clean_repository" -> <<"ctl", "ctl", "ctl", "ctl">>
    [] phase = "clone_repository" -> <<"ctl">>
    [] phase \in {"cmd", "cmd_with_output", "write_file", "read_file",
                  "create_branch", "push", "mr_cmd"} -> <<"ctl">>
    [] phase = "commit" -> <<"ctl", "ctl">>
    [] phase \in {"token_rpc", "mr_rpc"} -> <<"rpc">>
    [] OTHER -> << >>

\* Phases that run under the Workspace mutex.
Locked(phase) == phase \notin {"token_rpc", "mr_rpc", "teardown"}

\* The first phase of a method; "return" when it returns before any.
FirstPhase(op) ==
  CASE op = "init" ->
         IF ~integrationTesting /\ github THEN "auth_read" ELSE "adapter_init"
    [] op = "create_merge_request" -> IF github THEN "mr_url" ELSE "return"
    [] OTHER -> op

\* The phase that follows, given whether the last step of this one
\* succeeded and whether repository_exists found the repository.
AfterPhase(phase, ok, present) ==
  CASE phase = "auth_read" -> "token_rpc"
    [] phase = "token_rpc" -> IF ok THEN "auth_store" ELSE "return"
    [] phase = "auth_store" -> "adapter_init"
    [] phase = "adapter_init" -> IF ok THEN "repository_exists" ELSE "return"
    [] phase = "repository_exists" ->
         IF ok
           THEN IF integrationTesting THEN "update_remote"
                ELSE "configure_git"
           ELSE "clone_repository"
    [] phase = "configure_git" ->
         IF ok /\ present THEN "update_remote" ELSE "return"
    [] phase = "update_remote" -> IF ok THEN "clean_repository" ELSE "return"
    [] phase = "clone_repository" ->
         IF ok /\ ~integrationTesting THEN "configure_git" ELSE "return"
    [] phase = "mr_url" -> "mr_cmd"
    [] phase = "mr_cmd" -> IF ok THEN "mr_rpc" ELSE "return"
    [] OTHER -> "return"

InitWs ==
  /\ integrationTesting \in BOOLEAN
  /\ github \in BOOLEAN
  /\ wsHolder = NoCaller
  /\ wsWaiters = << >>
  /\ caller = [c \in Callers |-> Idle]
  /\ repoUrl = "plain"
  /\ arrivals = << >>

Without(q, c) == SelectSeq(q, LAMBDA x : x # c)

\* The waiter a released tokio::sync::Mutex is handed to: the oldest.
NextWaiter(q) == Head(q)

\* A mutex that lets a request through while the lock is taken.
MutexAlwaysFree(holder) == TRUE

\* The mutex can be taken.
MutexFree(holder) == holder = NoCaller

\* A guard dropped before the controller call is awaited.
GuardDroppedBeforeCall(c) == NoCaller

\* The owner of the mutex while a step of c's phase is awaited: the guard
\* `inner` is a local of the method and lives to its end.
GuardDuringStep(c) == c

\* c goes on to phase next of method op: it returns, starts an unlocked
\* Git-hosting call, or reaches self.0.lock().await.
Enter(c, op, next, present) ==
  IF next = "return"
    THEN /\ caller' = [caller EXCEPT ![c] = Idle]
         /\ UNCHANGED wsWaiters
         /\ arrivals' = Without(arrivals, c)
    ELSE IF Locked(next)
      THEN /\ caller' = [caller EXCEPT ![c] =
                 [pc |-> "wait", op |-> op, phase |-> next, step |-> 1,
                  present |-> present]]
           /\ wsWaiters' = Append(wsWaiters, c)
           /\ arrivals' = Append(Without(arrivals, c), c)
      ELSE /\ caller' = [caller EXCEPT ![c] =
                 [pc |-> IF next = "teardown" THEN "recurse" ELSE "rpc",
                  op |-> op, phase |-> next, step |-> 1,
                  present |-> present]]
           /\ UNCHANGED wsWaiters
           /\ arrivals' = Without(arrivals, c)

\* A caller invokes a method of the Workspace.
Invoke(c, op) ==
  /\ caller[c].pc = "idle"
  /\ Enter(c, op, FirstPhase(op), FALSE)
  /\ UNCHANGED <<integrationTesting, github, wsHolder, repoUrl>>

\* lock().await completes for the caller the mutex is handed to.
Grant(c) ==
  /\ caller[c].pc = "wait"
  /\ MutexFree(wsHolder)
  /\ wsWaiters # << >>
  /\ NextWaiter(wsWaiters) = c
  /\ wsHolder' = c
  /\ wsWaiters' = Without(wsWaiters, c)
  /\ caller' = [caller EXCEPT ![c].pc = "held"]
  /\ UNCHANGED <<integrationTesting, github, repoUrl, arrivals>>

\* The next step of the phase is awaited.
StepStart(c) ==
  /\ caller[c].pc = "held"
  /\ caller[c].step <= Len(Steps(caller[c].phase))
  /\ caller' = [caller EXCEPT ![c].pc =
                  IF Steps(caller[c].phase)[caller[c].step] = "ctl"
                    THEN "call" ELSE "rpc"]
  /\ wsHolder' = GuardDuringStep(c)
  /\ UNCHANGED <<integrationTesting, github, wsWaiters, repoUrl, arrivals>>

\* The function that took the guard returns: the guard is dropped and the
\* method goes on.  auth_store has stored the token-bearing url.
PhaseEnd(c, ok) ==
  LET me == caller[c]
      present == IF me.phase = "repository_exists" THEN ok ELSE me.present
  IN /\ wsHolder' = IF Locked(me.phase) /\ wsHolder = c THEN NoCaller
                    ELSE wsHolder
     /\ repoUrl' = IF me.phase = "auth_store" THEN "token" ELSE repoUrl
     /\ Enter(c, me.op, AfterPhase(me.phase, ok, present), present)

\* An awaited step returns.  A failing step ends the phase (`?`), the last
\* step ends it too; otherwise the guard stays and the next step follows.
StepEnd(c, ok) ==
  /\ caller[c].pc \in {"call", "rpc"}
  /\ IF ok /\ caller[c].step < Len(Steps(caller[c].phase))
       THEN /\ caller' = [caller EXCEPT ![c].pc = "held",
                                        ![c].step = @ + 1]
            /\ UNCHANGED <<wsHolder, wsWaiters, repoUrl, arrivals>>
       ELSE PhaseEnd(c, ok)
  /\ UNCHANGED <<integrationTesting, github>>

\* impl traits::Workspace for Workspace, teardown(self): its body is
\* self.teardown().await; Workspace has no inherent teardown, so the call
\* is the trait method again, one level deeper, and no level returns.
TeardownAgain(c) ==
  /\ caller[c].pc = "recurse"
  /\ caller[c].step < MaxDepth
  /\ caller' = [caller EXCEPT ![c].step = @ + 1]
  /\ UNCHANGED <<integrationTesting, github, wsHolder, wsWaiters, repoUrl,
                 arrivals>>

\* A phase that only reads or writes the inner value ends.
HeldEnd(c) ==
  /\ caller[c].pc = "held"
  /\ Steps(caller[c].phase) = << >>
  /\ PhaseEnd(c, TRUE)
  /\ UNCHANGED <<integrationTesting, github>>

----------------------------------------------------------------------------
(***************************************************************************)
(* Command execution in the backend controllers                            *)
(* (src/workspace_controllers/docker.rs, local_temp_sync.rs, testing.rs).  *)
(* A world fixes the backend, the status the command terminates with and   *)
(* the outcome of every call the controller makes on the way.              *)
(***************************************************************************)
Backends == {"docker", "local", "testing"}
ExitCodes == {0, 1, 124}
NoCode == 0 - 1

\* backend  the controller
\* exit     the status the command terminates with when left to run
\* timeout  the timeout argument: None, Some of less than a second, Some of
\*          whole seconds
\* long     the command would run longer than the timeout
\* push     the command contains "git push"
\* spawn    Command::output() / create_exec: could the command be started
\* start    start_exec
\* stream   the attached output stream ends normally, or yields an Err item
\*          while the command is still running
\* inspect  inspect_exec fails, reports Some(exit code), or reports None (no
\*          exit code: the command has not terminated)
Timeouts == {"none", "subsecond", "seconds"}

Worlds ==
  [backend : {"docker"}, exit : ExitCodes, push : {FALSE},
   spawn : {"ok", "err"}, start : {"ok", "err"},
   stream : {"complete", "broken"}, inspect : {"some", "none", "err"},
   timeout : Timeouts, long : BOOLEAN]
  \cup
  [backend : {"local"}, exit : ExitCodes, push : {FALSE},
   spawn : {"ok", "err"}, start : {"ok"}, stream : {"complete"},
   inspect : {"some"}, timeout : Timeouts, long : BOOLEAN]
  \cup
  [backend : {"testing"}, exit : ExitCodes, push : BOOLEAN,
   spawn : {"ok", "err"}, start : {"ok"}, stream : {"complete"},
   inspect : {"some"}, timeout : Timeouts, long : BOOLEAN]

\* What the environment can do: the exit code is missing only for a command
\* that is still running, which the controller can meet only after the
\* output stream broke off; calls after a failed one are not made.
Possible(w) ==
  /\ w.inspect = "none" => w.stream = "broken"
  /\ w.timeout = "none" => ~w.long
  /\ w.spawn = "err" =>
       (w.start = "ok" /\ w.stream = "complete" /\ w.inspect = "some")
  /\ w.start = "err" => (w.stream = "complete" /\ w.inspect = "some")

IdleWorld ==
  [backend |-> "local", exit |-> 0, push |-> FALSE, spawn |-> "ok",
   start |-> "ok", stream |-> "complete", inspect |-> "some",
   timeout |-> "none", long |-> FALSE]

\* A returned value: Ok(CommandOutput) / Ok(()) with kind "ok", Err with
\* kind "err".  complete tells whether output holds all the command wrote.
Out(kind, code, complete) ==
  [kind |-> kind, exit_code |-> code, complete |-> complete]

NoOut == Out("none", NoCode, FALSE)
Failed == Out("err", NoCode, FALSE)

\* timeout.as_secs(): the whole seconds of the Duration.
AsSecs(t) == IF t = "seconds" THEN 1 ELSE 0

\* DockerController::cmd_with_output puts `timeout <secs>` before the
\* command when a timeout is given; the other controllers take the
\* argument as _timeout and do not use it.
TimeoutPrefix(w) ==
  IF w.backend = "docker" /\ w.timeout # "none"
    THEN <<"timeout", AsSecs(w.timeout)>>
    ELSE << >>

\* The command is stopped at the timeout: it runs under `timeout <secs>`
\* with secs > 0 (a duration of 0 disables timeout(1)) and would run longer.
Killed(w) ==
  /\ TimeoutPrefix(w) # << >>
  /\ TimeoutPrefix(w)[2] > 0
  /\ w.long

\* The status of the process the controller started: 124 from timeout(1)
\* when it stopped the command, else the command's own.
Status(w) == IF Killed(w) THEN 124 ELSE w.exit

\* exec_inspect.exit_code.unwrap_or(0) as i32.
ExitCodeOrZero(w) == IF w.inspect = "some" THEN Status(w) ELSE 0

\* DockerController::cmd_with_output: create_exec?, start_exec?, collect the
\* stream while it yields Ok items, inspect_exec?, unwrap_or(0).
DockerCmdWithOutput(w) ==
  IF w.spawn = "err" \/ w.start = "err" \/ w.inspect = "err"
    THEN Failed
    ELSE Out("ok", ExitCodeOrZero(w), w.stream = "complete")

\* DockerController::cmd: Err unless cmd_with_output gave exit_code 0.
DockerCmd(w) ==
  LET result == DockerCmdWithOutput(w)
  IN IF result.kind = "err" THEN Failed
     ELSE IF result.exit_code = 0 THEN Out("ok", NoCode, TRUE)
     ELSE Failed

\* handle_command_result: Ok(stdout) when status.success(), else Err.
HandleCommandResult(w) ==
  IF Status(w) = 0 THEN Out("ok", 0, TRUE) ELSE Failed

\* LocalTempSyncController::spawn_cmd then handle_command_result.
LocalCmdWithOutput(w) ==
  IF w.spawn = "err" THEN Failed ELSE HandleCommandResult(w)

\* LocalTempSyncController::cmd: the same, mapped to ().
LocalCmd(w) ==
  LET r == LocalCmdWithOutput(w)
  IN IF r.kind = "ok" THEN Out("ok", NoCode, TRUE) ELSE Failed

\* TestingController::spawn_cmd answers a "git push" with an empty success
\* without running it; cmd_with_output passes the result on.
TestingCmdWithOutput(w) ==
  IF w.push THEN Out("ok", 0, TRUE)
  ELSE IF w.spawn = "err" THEN Failed
  ELSE HandleCommandResult(w)

\* TestingController::cmd.
TestingCmd(w) ==
  LET r == TestingCmdWithOutput(w)
  IN IF r.kind = "ok" THEN Out("ok", NoCode, TRUE) ELSE Failed

\* WorkspaceController::cmd_with_output, by backend.
CmdWithOutput(w) ==
  CASE w.backend = "docker" -> DockerCmdWithOutput(w)
    [] w.backend = "local" -> LocalCmdWithOutput(w)
    [] w.backend = "testing" -> TestingCmdWithOutput(w)

\* WorkspaceController::cmd, by backend.
Cmd(w) ==
  CASE w.backend = "docker" -> DockerCmd(w)
    [] w.backend = "local" -> LocalCmd(w)
    [] w.backend = "testing" -> TestingCmd(w)

\* The command was started and ran (or will run) to its exit status.
Executed(w) ==
  /\ w.spawn = "ok"
  /\ w.start = "ok"
  /\ ~w.push

\* The command ran and every call of the controller around it succeeded.
CleanRun(w) ==
  /\ Executed(w)
  /\ w.stream = "complete"
  /\ w.inspect = "some"

InitCtl ==
  /\ world \in {w \in Worlds : Possible(w)}
  /\ cmdRes = NoOut
  /\ cwoRes = NoOut

\* cmd(cmd, working_dir, env, timeout) is called.
CallCmd ==
  /\ cmdRes = NoOut
  /\ cmdRes' = Cmd(world)
  /\ UNCHANGED <<world, cwoRes>>

\* cmd_with_output(cmd, working_dir, env, timeout) is called with the same
\* arguments in the same state.
CallCmdWithOutput ==
  /\ cwoRes = NoOut
  /\ cwoRes' = CmdWithOutput(world)
  /\ UNCHANGED <<world, cmdRes>>

----------------------------------------------------------------------------
(***************************************************************************)
(* Paths and files in the backend controllers.  A path is a sequence of    *)
(* components with a flag telling whether it is absolute; the workspace    *)
(* root (LocalTempSyncController.path, TestingController.path, the         *)
(* container's directory) is the one component "root".                     *)
(***************************************************************************)
FileNames == {"f", "d/f"}
WorkingDirs == {"none", "x", "/x", "../y"}
FsContents == {"a", "b"}

\* Path::new(s) / PathBuf::from(s).
PathOf(s) ==
  CASE s = "f" -> [abs |-> FALSE, comps |-> <<"f">>]
    [] s = "d/f" -> [abs |-> FALSE, comps |-> <<"d", "f">>]
    [] s = "x" -> [abs |-> FALSE, comps |-> <<"x">>]
    [] s = "/x" -> [abs |-> TRUE, comps |-> <<"x">>]
    [] s = "../y" -> [abs |-> FALSE, comps |-> <<"..", "y">>]
    [] OTHER -> [abs |-> FALSE, comps |-> << >>]

\* The workspace root.
RootPath == [abs |-> TRUE, comps |-> <<"root">>]

\* PathBuf::push / Path::join: an absolute argument replaces the base.
Join(base, p) ==
  IF p.abs THEN p
  ELSE [abs |-> base.abs, comps |-> base.comps \o p.comps]

\* Path::strip_prefix("/").
StripRoot(p) == [abs |-> FALSE, comps |-> p.comps]

\* The place the operating system resolves a path to when current_dir,
\* fs::write or fs::read_to_string is handed it: a ".." component leaves
\* the directory reached so far, and stays at "/" there.
RECURSIVE Resolve(_, _)
Resolve(reached, rest) ==
  IF rest = << >> THEN reached
  ELSE IF Head(rest) = ".."
    THEN Resolve(SubSeq(reached, 1, Len(reached) - 1), Tail(rest))
    ELSE Resolve(Append(reached, Head(rest)), Tail(rest))

Resolved(p) == [abs |-> p.abs, comps |-> Resolve(<< >>, p.comps)]

\* p is dir or lies below it.
Within(p, dir) ==
  /\ Len(p.comps) >= Len(dir.comps)
  /\ SubSeq(p.comps, 1, Len(dir.comps)) = dir.comps

\* Path::parent.
Parent(p) ==
  [abs |-> p.abs, comps |-> SubSeq(p.comps, 1, Len(p.comps) - 1)]

\* The directories create_dir_all(p) makes sure of: p and what is above it.
Ancestors(p) ==
  {[abs |-> p.abs, comps |-> SubSeq(p.comps, 1, n)] : n \in 1..Len(p.comps)}

\* LocalTempSyncController::path: base_path.push(working_dir), the working
\* directory made relative first when it is absolute.
LocalPath(wd) ==
  LET given == PathOf(IF wd = "none" THEN "" ELSE wd)
      working_dir == IF given.abs THEN StripRoot(given) ELSE given
  IN Join(RootPath, working_dir)

\* A path handed to the Docker archive endpoints or used by a command in
\* the container names a place under the container's directory.
InContainer(p) == [abs |-> TRUE, comps |-> RootPath.comps \o p.comps]

\* The files a call can name, and where the caller means them to be: the
\* file under working_dir under the workspace root.
Meant(file, wd) ==
  Join(Join(RootPath, StripRoot(PathOf(IF wd = "none" THEN "" ELSE wd))),
       PathOf(file))

Locations == {Meant(f, w) : f \in FileNames, w \in WorkingDirs}

\* Where write_file(file, content, wd) puts the file.
\*   local:   self.path(working_dir).join(file)
\*   docker:  Path::new(working_dir).join(path), uploaded into its parent
\*   testing: format!("{}/{}", self.path, file), _working_dir unused
WriteTarget(b, file, wd) ==
  CASE b = "local" -> Join(LocalPath(wd), PathOf(file))
    [] b = "docker" ->
         InContainer(IF wd = "none" THEN PathOf(file)
                     ELSE Join(PathOf(wd), PathOf(file)))
    [] b = "testing" -> Join(RootPath, PathOf(file))

\* Where read_file(file, wd) looks.
\*   local:   self.path(working_dir).join(file)
\*   docker:  DownloadFromContainerOptions { path }, working_dir unused
\*   testing: `cat file` run with None as working directory
ReadTarget(b, file, wd) ==
  CASE b = "local" -> Join(LocalPath(wd), PathOf(file))
    [] b = "docker" -> InContainer(PathOf(file))
    [] b = "testing" -> Join(RootPath, PathOf(file))

\* The directory a command runs in.
\*   local:   current_dir(self.path(working_dir))
\*   docker:  _working_dir unused ("TODO: Working dir")
\*   testing: current_dir(&self.path), _working_dir unused
CommandDir(b, wd) ==
  CASE b = "local" -> LocalPath(wd)
    [] b = "docker" -> RootPath
    [] b = "testing" -> RootPath

\* write_file makes the parent directories itself: only the local
\* controller calls create_dir_all(parent).
CreatesParents(b) == b = "local"

\* The directory in which a call with working_dir wd acts.
EffectiveDir(b, op, file, wd) ==
  CASE op = "write_file" ->
         [abs |-> TRUE,
          comps |-> SubSeq(WriteTarget(b, file, wd).comps, 1,
                     Len(WriteTarget(b, file, wd).comps)
                       - Len(PathOf(file).comps))]
    [] op = "read_file" ->
         [abs |-> TRUE,
          comps |-> SubSeq(ReadTarget(b, file, wd).comps, 1,
                     Len(ReadTarget(b, file, wd).comps)
                       - Len(PathOf(file).comps))]
    [] OTHER -> CommandDir(b, wd)

NoCall ==
  [op |-> "none", file |-> "none", wd |-> "none", content |-> NoFile,
   kind |-> "none", out |-> NoFile, dir |-> RootPath, hadParent |-> TRUE,
   env |-> "ok"]

InitFs ==
  /\ fsBackend \in Backends
  /\ dirs \in {{RootPath}, {RootPath, Join(RootPath, PathOf("x"))}}
  /\ disk = [l \in Locations |-> NoFile]
  /\ latest = [l \in Locations |-> NoFile]
  /\ fsLast = NoCall
  /\ stopped = FALSE

\* The Docker daemon answers a call that names the controller's container:
\* after remove_container it knows no such container and every call on it
\* (create_exec, upload_to_container, download_from_container) is an Err.
ContainerAlwaysThere(b, removed_container) == TRUE

ContainerThere(b, removed_container) == b = "docker" => ~removed_container

\* write_file(file, content, working_dir); env tells whether the file
\* system or the Docker daemon carries the write out.
FsWriteFile(file, wd, content, env) ==
  LET target == WriteTarget(fsBackend, file, wd)
      there == ContainerThere(fsBackend, stopped)
      hadParent == Parent(target) \in dirs
      ok == there /\ env = "ok" /\ (hadParent \/ CreatesParents(fsBackend))
  IN /\ fsLast' = [op |-> "write_file", file |-> file, wd |-> wd,
                   content |-> content,
                   kind |-> IF ok THEN "ok" ELSE "err", out |-> NoFile,
                   dir |-> EffectiveDir(fsBackend, "write_file", file, wd),
                   hadParent |-> hadParent,
                   env |-> IF there THEN env ELSE "err"]
     /\ dirs' = IF ok THEN dirs \cup Ancestors(Parent(target)) ELSE dirs
     /\ disk' = IF ok THEN [disk EXCEPT ![target] = content] ELSE disk
     /\ latest' = IF ok THEN [latest EXCEPT ![Meant(file, wd)] = content]
                  ELSE latest
     /\ UNCHANGED <<fsBackend, stopped>>

\* read_file(file, working_dir).
FsReadFile(file, wd) ==
  LET target == ReadTarget(fsBackend, file, wd)
      found == ContainerThere(fsBackend, stopped) /\ disk[target] # NoFile
  IN /\ fsLast' = [op |-> "read_file", file |-> file, wd |-> wd,
                   content |-> NoFile,
                   kind |-> IF found THEN "ok" ELSE "err",
                   out |-> IF found THEN disk[target] ELSE NoFile,
                   dir |-> EffectiveDir(fsBackend, "read_file", file, wd),
                   hadParent |-> TRUE, env |-> "ok"]
     /\ UNCHANGED <<fsBackend, dirs, disk, latest, stopped>>

\* cmd / cmd_with_output with a working_dir: the directory it runs in; kind
\* "ok" when the command was started.
FsCmd(op, wd) ==
  /\ fsLast' = [op |-> op, file |-> "none", wd |-> wd, content |-> NoFile,
                kind |-> IF ContainerThere(fsBackend, stopped) THEN "ok"
                         ELSE "err",
                out |-> NoFile,
                dir |-> EffectiveDir(fsBackend, op, "none", wd),
                hadParent |-> TRUE, env |-> "ok"]
  /\ UNCHANGED <<fsBackend, dirs, disk, latest, stopped>>

\* stop(): the Docker controller force-removes its container, and with it
\* every file in it; the local and the testing controller panic (todo!()).
FsStop(env) ==
  LET removes == fsBackend = "docker" /\ env = "ok" /\ ~stopped
  IN /\ fsLast' = [NoCall EXCEPT
                     !.op = "stop",
                     !.kind = IF fsBackend # "docker" THEN "panic"
                              ELSE IF removes THEN "ok" ELSE "err",
                     !.env = env]
     /\ stopped' = (stopped \/ removes)
     /\ dirs' = IF removes THEN {} ELSE dirs
     /\ disk' = IF removes THEN [l \in Locations |-> NoFile] ELSE disk
     /\ latest' = IF removes THEN [l \in Locations |-> NoFile] ELSE latest
     /\ UNCHANGED fsBackend

----------------------------------------------------------------------------
(***************************************************************************)
(* The environment of commands in the local controller                     *)
(* (src/workspace_controllers/local_temp_sync.rs).  An environment maps    *)
(* every variable name to its value, or to NoVal when it is not set.       *)
(***************************************************************************)
EnvKeys == {"PATH", "CARGO_HOME", "HOME", "FOO"}
NoVal == "unset"
HostValues == {"host"}
CallValues == {"call"}

ALLOWED_ENV == {"PATH", "CARGO_HOME", "RUST_HOME", "RUST_VERSION"}

EmptyEnv == [k \in EnvKeys |-> NoVal]
NoEnv == [k \in EnvKeys |-> "none"]

\* An initialize that keeps every host variable.
KeepAll(host) == host

\* LocalTempSyncController::initialize: the host variables whose key is in
\* ALLOWED_ENV.
Whitelist(host) ==
  [k \in EnvKeys |-> IF k \in ALLOWED_ENV THEN host[k] ELSE NoVal]

\* HashMap::extend: the entries of env replace or add to those of base.
Extend(base, env) ==
  [k \in EnvKeys |-> IF env[k] # NoVal THEN env[k] ELSE base[k]]

\* Command::env_clear().envs(envs): the child gets envs and nothing of the
\* parent's environment.
SpawnEnv(envs) == envs

InitEnv ==
  /\ hostEnv \in [EnvKeys -> HostValues \cup {NoVal}]
  /\ whitelisted_env = Whitelist(hostEnv)
  /\ callEnv = NoEnv
  /\ procEnv = NoEnv

\* cmd / cmd_with_output(cmd, working_dir, env, _): envs is a clone of
\* whitelisted_env extended with env, and the command is spawned with it.
EnvCmd(env) ==
  LET envs == Extend(whitelisted_env, env)
  IN /\ callEnv' = env
     /\ procEnv' = SpawnEnv(envs)
     /\ UNCHANGED <<hostEnv, whitelisted_env>>

----------------------------------------------------------------------------
(***************************************************************************)
(* Repositories, credentials and logging                                   *)
(* (provision_repositories and the logging of the controllers,             *)
(* Workspace::init in src/workspace.rs).  A string is a sequence of        *)
(* pieces; the credential of a URL is one piece.                           *)
(***************************************************************************)
Secrets == {"SECRET", "TOKEN"}
NoOrigin == << >>

PlainUrl == <<"https://", "github.com/o/r">>
TokenUrl(tok) == <<"https://", "x-access-token:", tok, "@", "github.com/o/r">>

\* A line or a stored URL shows a credential.
HasSecret(s) == \E i \in 1..Len(s) : s[i] \in Secrets

\* The length of the match of [^@]+@ at the start of s, or 0.
MatchToAt(s) ==
  IF \E i \in 1..Len(s) : s[i] = "@"
    THEN LET n == CHOOSE i \in 1..Len(s) :
                    s[i] = "@" /\ \A j \in 1..(i - 1) : s[j] # "@"
         IN IF n > 1 THEN n ELSE 0
    ELSE 0

\* scrub: every x-access-token:[^@]+@ becomes x-access-token:***@.
RECURSIVE scrub(_)
scrub(s) ==
  IF s = << >> THEN << >>
  ELSE IF Head(s) = "x-access-token:" /\ MatchToAt(Tail(s)) > 0
    THEN <<"x-access-token:", "***", "@">>
           \o scrub(SubSeq(Tail(s), MatchToAt(Tail(s)) + 1, Len(Tail(s))))
  ELSE <<Head(s)>> \o scrub(Tail(s))

\* shell_escape::escape: quotes are added only around a string with a
\* character outside the safe set.
escape(s) ==
  IF \E i \in 1..Len(s) : s[i] \in {" ", "$"}
    THEN <<"'">> \o s \o <<"'">>
    ELSE s

\* GithubSession::add_token_to_url: user name x-access-token and the
\* installation token as password.
AddTokenToUrl(url) == TokenUrl("TOKEN")

\* What a controller logs about a command it is given.
\*   local:   span field cmd = scrub(cmd) and debug!(cmd = scrub(cmd), ..)
\*   docker:  nothing
\*   testing: #[tracing::instrument(skip(self))]: the cmd argument as it is
CmdLog(b, cmd) ==
  CASE b = "local" -> {scrub(cmd)}
    [] b = "docker" -> {}
    [] b = "testing" -> {cmd}

CloneCmd(url, path) == <<"git clone ">> \o url \o <<" ", path>>

GitSteps ==
  {"none", "ls", "mkdir", "clone", "add", "pull", "remove", "set-url",
   "clean", "config"}

Done(op, result) == [op |-> op, result |-> result]

\* What an operation did: had tells whether the repository was there when
\* it began, found what its own test for the repository gave, steps the
\* steps it took in order, failedAt the step that failed ("none" when all
\* succeeded), pulled the branch a pull named ("none" without a pull).
Ran(had, found, steps, failedAt, pulled) ==
  [had |-> had, found |-> found, steps |-> steps, failedAt |-> failedAt,
   pulled |-> pulled]

NoRun == Ran(FALSE, FALSE, << >>, "none", "none")

Branches == {"master", "main"}

\* The first n steps of a sequence of steps.
Take(steps, n) == SubSeq(steps, 1, IF n < Len(steps) THEN n ELSE Len(steps))

InitGit ==
  /\ gitBackend \in Backends
  /\ repository_url \in {PlainUrl, TokenUrl("SECRET")}
  /\ hasRepo = FALSE
  /\ origin = NoOrigin
  /\ logs = {}
  /\ gitDone = Done("none", "none")
  /\ gitRun = NoRun
  /\ defaultBranch \in Branches

\* LocalTempSyncController::provision_repositories, for one repository:
\* mkdir -p, git clone, each through self.cmd and `?`.
LocalProvision(url, fail) ==
  LET l1 == {<<"Making prefix ", "path">>}
               \cup CmdLog("local", <<"mkdir -p ", "path">>)
      l2 == {<<"Cloning repository ">> \o url}
               \cup CmdLog("local", CloneCmd(url, "path"))
      steps == <<"mkdir", "clone">>
  IN IF fail = "mkdir"
       THEN /\ logs' = logs \cup l1
            /\ gitDone' = Done("provision", "err")
            /\ gitRun' = Ran(hasRepo, FALSE, Take(steps, 1), "mkdir", "none")
            /\ UNCHANGED <<hasRepo, origin>>
     ELSE IF fail = "clone" \/ hasRepo
       THEN /\ logs' = logs \cup l1 \cup l2
            /\ gitDone' = Done("provision", "err")
            /\ gitRun' = Ran(hasRepo, FALSE, steps, "clone", "none")
            /\ UNCHANGED <<hasRepo, origin>>
     ELSE /\ logs' = logs \cup l1 \cup l2
          /\ hasRepo' = TRUE
          /\ origin' = url
          /\ gitDone' = Done("provision", "ok")
          /\ gitRun' = Ran(hasRepo, FALSE, steps, "none", "none")

\* The branch `git pull origin master` names.
PulledBranch == "master"

\* The steps of DockerController::provision_repositories for one
\* repository, given what `ls {path}/.git` showed.
DockerProvisionSteps(has_repository) ==
  IF has_repository THEN <<"ls", "add", "pull", "remove">>
  ELSE <<"ls", "mkdir", "clone", "remove">>

\* DockerController::provision_repositories, for one repository: ls .git;
\* then mkdir and clone, or remote add and pull; then remote remove.  The
\* pull fails when the remote has no branch of the name it is given.
DockerProvision(url, fail) ==
  LET l0 == {<<"Provisioning repository: ">> \o url}
      l1 == l0 \cup {<<"Has repository: ", IF hasRepo THEN "true" ELSE "false">>}
      l2 == l1 \cup {IF hasRepo
                       THEN <<"Pulling latest changes for repository: ">> \o url
                       ELSE <<"Cloning repository: ">> \o url}
      steps == DockerProvisionSteps(hasRepo)
      Took(n, failedAt) ==
        Ran(hasRepo, hasRepo /\ n > 1, Take(steps, n), failedAt,
            IF hasRepo /\ n > 2 THEN PulledBranch ELSE "none")
      Err(l, o, n) == /\ logs' = logs \cup l
                      /\ origin' = o
                      /\ gitDone' = Done("provision", "err")
                      /\ gitRun' = Took(n, steps[n])
                      /\ UNCHANGED hasRepo
  IN IF fail = "ls" THEN Err(l0, origin, 1)
     ELSE IF ~hasRepo /\ fail = "mkdir" THEN Err(l2, origin, 2)
     ELSE IF ~hasRepo /\ fail = "clone" THEN Err(l2, origin, 3)
     ELSE IF hasRepo /\ (fail = "add" \/ origin # NoOrigin)
       THEN Err(l2, origin, 2)
     ELSE IF hasRepo /\ (fail = "pull" \/ PulledBranch # defaultBranch)
       THEN Err(l2, url, 3)
     ELSE IF fail = "remove"
       THEN /\ logs' = logs \cup l2
            /\ hasRepo' = TRUE
            /\ origin' = url
            /\ gitDone' = Done("provision", "err")
            /\ gitRun' = Took(4, "remove")
     ELSE /\ logs' = logs \cup l2
          /\ hasRepo' = TRUE
          /\ origin' = NoOrigin
          /\ gitDone' = Done("provision", "ok")
          /\ gitRun' = Took(4, "none")

\* provision_repositories(vec![repository]) on the controller;
\* TestingController::provision_repositories is todo!().
Provision(url, fail) ==
  /\ CASE gitBackend = "local" -> LocalProvision(url, fail)
       [] gitBackend = "docker" -> DockerProvision(url, fail)
       [] gitBackend = "testing" ->
            /\ gitDone' = Done("provision", "panic")
            /\ gitRun' = NoRun
            /\ UNCHANGED <<hasRepo, origin, logs>>
  /\ UNCHANGED <<gitBackend, repository_url, defaultBranch>>

\* cmd(cmd, ..) on the controller: what it logs.
GitCmd(cmd) ==
  /\ logs' = logs \cup CmdLog(gitBackend, cmd)
  /\ gitDone' = Done("cmd", "ok")
  /\ gitRun' = NoRun
  /\ UNCHANGED <<gitBackend, repository_url, hasRepo, origin, defaultBranch>>

\* authenticate_with_repository_if_possible: session "none" is
\* GithubSession::try_new() returning Err, "ok" a session whose
\* add_token_to_url succeeds, "err" a session whose add_token_to_url fails.
\* The result and the url stored in the Workspace afterwards.
AuthenticateOrFail(session, url) ==
  IF session = "ok" THEN [result |-> "ok", url |-> AddTokenToUrl(url)]
  ELSE [result |-> "err", url |-> url]

Authenticate(session, url) ==
  IF session = "ok" THEN [result |-> "ok", url |-> AddTokenToUrl(url)]
  ELSE IF session = "none" THEN [result |-> "ok", url |-> url]
  ELSE [result |-> "err", url |-> url]

\* Workspace::init after authentication and adapter.init: the functions it
\* calls, given what repository_exists returned.
InitStepsCloneFirst(exists) == <<"clone_repository", "configure_git">>

InitSteps(exists) ==
  IF exists
    THEN <<"configure_git", "update_remote", "clean_repository">>
    ELSE <<"clone_repository", "configure_git">>

\* Workspace::init on the controller: authenticate_with_repository_if_possible
\* (session tells whether a GithubSession exists and add_token_to_url
\* works), adapter.init, then configure_git, update_remote and
\* clean_repository when `ls -A .git` succeeds, else clone_repository and
\* configure_git; every step returns early on an error.
WsInit(session, fail) ==
  LET auth == Authenticate(session, repository_url)
      url == auth.url
      exists == hasRepo /\ fail # "ls"
      steps == InitSteps(exists)
      lLs == CmdLog(gitBackend, <<"ls -A .git">>)
      lConfig == CmdLog(gitBackend, <<"git config user.email">>)
                   \cup CmdLog(gitBackend, <<"git config user.name">>)
      lSetUrl == CmdLog(gitBackend,
                        <<"git remote set-url origin ">> \o escape(url))
      lClone == CmdLog(gitBackend, CloneCmd(escape(url), "."))
      lClean == CmdLog(gitBackend, <<"git fetch origin">>)
      End(l, has, o, n, result) ==
        /\ logs' = logs \cup lLs \cup l
        /\ hasRepo' = has
        /\ origin' = o
        /\ repository_url' = url
        /\ gitDone' = Done("init", result)
        /\ gitRun' = Ran(hasRepo, exists, Take(steps, n),
                         IF result = "ok" THEN "none" ELSE Take(steps, n)[n],
                         "none")
  IN /\ IF auth.result = "err"
          THEN /\ gitDone' = Done("init", "err")
               /\ gitRun' = Ran(hasRepo, FALSE, << >>, "authenticate", "none")
               /\ UNCHANGED <<repository_url, hasRepo, origin, logs>>
        ELSE IF exists
          THEN IF fail = "config"
                 THEN End(lConfig, hasRepo, origin, 1, "err")
               ELSE IF fail = "set-url" \/ origin = NoOrigin
                 THEN End(lConfig \cup lSetUrl, hasRepo, origin, 2, "err")
               ELSE IF fail = "clean"
                 THEN End(lConfig \cup lSetUrl \cup lClean, hasRepo, url, 3,
                          "err")
               ELSE End(lConfig \cup lSetUrl \cup lClean, hasRepo, url, 3,
                        "ok")
        ELSE IF fail = "clone" \/ hasRepo
          THEN End(lClone, hasRepo, origin, 1, "err")
        ELSE IF fail = "config"
          THEN End(lClone \cup lConfig, TRUE, url, 2, "err")
        ELSE End(lClone \cup lConfig, TRUE, url, 2, "ok")
     /\ UNCHANGED <<gitBackend, defaultBranch>>

----------------------------------------------------------------------------
(***************************************************************************)
(* The image cache of the Docker provider                                  *)
(* (src/workspace_providers/docker.rs).  A string is a sequence of         *)
(* characters; a hash is modelled by the byte stream fed to the hasher,    *)
(* that is SHA-256 and its 16-digit prefix are taken as free of            *)
(* collisions.                                                             *)
(***************************************************************************)
MaxProvisions == 2

ImgEnvKeys == {<<"a">>, <<"b">>}
ImgEnvValues == {<<"x">>, <<"y">>}
NoEntry == << >>

ContextName == <<"n">>
SetupScript == <<"s">>
BaseImage == <<"i">>

\* Option<String>: None is the empty sequence, Some(r) holds r.
NoReference == << >>
Some(r) == <<r>>

\* context.repositories of the context every provision call is given.
Repositories ==
  <<[url |-> <<"u">>, path |-> <<"p">>, reference |-> NoReference]>>

\* The context every provision call is given.
Context ==
  [name |-> ContextName, repositories |-> Repositories,
   setup_script |-> SetupScript]

\* The entries of a HashMap<String, String>.
Entries(env) ==
  {<<k, env[k]>> : k \in {j \in DOMAIN env : env[j] # NoEntry}}

\* env.iter(): the entries in an arbitrary order, each once.
IterOrders(env) ==
  {o \in [1..Cardinality(Entries(env)) -> Entries(env)] :
     \A e \in Entries(env) : \E i \in DOMAIN o : o[i] = e}

\* env.iter().for_each(|(key, value)| { update(key); update(value) }).
RECURSIVE EnvStream(_)
EnvStream(order) ==
  IF Len(order) = 0 THEN << >>
  ELSE Head(order)[1] \o Head(order)[2] \o EnvStream(Tail(order))

\* The updates one repository feeds to the hasher: url, path, and the
\* reference when there is one; update() appends, nothing separates them.
RepoStream(repo) ==
  repo.url \o repo.path
    \o (IF repo.reference = NoReference THEN << >> ELSE repo.reference[1])

\* repositories.iter().for_each(|repo| ..).
RECURSIVE RepositoryStream(_)
RepositoryStream(repositories) ==
  IF Len(repositories) = 0 THEN << >>
  ELSE RepoStream(Head(repositories)) \o RepositoryStream(Tail(repositories))

\* repositories_hash: the digest of the bytes fed to the hasher, which is
\* modelled by those bytes (a digest without collisions).
repositories_hash(repositories) == RepositoryStream(repositories)

\* context_hash: name, repositories, setup script, then the env entries as
\* the map yields them.
context_hash(context, order) ==
  context.name \o RepositoryStream(context.repositories)
    \o context.setup_script \o EnvStream(order)

\* prepare_image: "{name}-{base_image}-cache-{context_hash}".
ImageName(key) == <<ContextName, BaseImage, <<"cache">>, key>>

\* prepare_base_image_repositories: "{base_image}-cache-{hash}".
BaseImageName == <<BaseImage, <<"cache">>, repositories_hash(Repositories)>>

InitImg ==
  /\ imgEnv \in [ImgEnvKeys -> ImgEnvValues \cup {NoEntry}]
  /\ images = {}
  /\ setupRuns = 0
  /\ cloneRuns = 0
  /\ imgKeys = << >>
  /\ imgRes = << >>
  /\ imgRuns = << >>

\* The worlds the setup script can run in: a container of the Docker
\* controller, cmd_with_output("/tmp/setup.sh", Some("/"), env, None).
SetupWorlds ==
  {w \in Worlds : w.backend = "docker" /\ w.timeout = "none" /\ Possible(w)}

\* What one provision call did: the status the setup script terminated
\* with (NoCode when it was not started) and whether the image of the
\* call's key exists when the call returns.
Run(status, tagged) == [setup |-> status, tagged |-> tagged]

\* DockerProvider::provision(context, env) with the same context and env
\* every time: prepare_image, then DockerController::start.  order is the
\* order in which this call's env map yields its entries; fail names the
\* step the Docker daemon fails at ("prepare": starting the container,
\* writing /tmp/setup.sh or chmod); w is the world the setup script runs in.
ProvisionImage(order, fail, w) ==
  LET key == context_hash(Context, order)
      image_name == ImageName(key)
      hit == image_name \in images
      baseHit == BaseImageName \in images
      output == DockerCmdWithOutput(w)
      started == w.spawn = "ok" /\ w.start = "ok"
      status == IF started THEN Status(w) ELSE NoCode
      setups == IF started THEN setupRuns + 1 ELSE setupRuns
      Return(imgs, clones, ran_setups, res, setup_status) ==
        /\ images' = imgs
        /\ cloneRuns' = clones
        /\ setupRuns' = ran_setups
        /\ imgKeys' = Append(imgKeys, key)
        /\ imgRes' = Append(imgRes, res)
        /\ imgRuns' = Append(imgRuns, Run(setup_status, image_name \in imgs))
        /\ UNCHANGED imgEnv
      clones == IF baseHit THEN cloneRuns ELSE cloneRuns + 1
  IN /\ Len(imgKeys) < MaxProvisions
     /\ IF hit
          THEN Return(images, cloneRuns, setupRuns,
                      IF fail = "start" THEN "err" ELSE "ok", NoCode)
        ELSE IF fail = "clone" /\ ~baseHit
          THEN Return(images, clones, setupRuns, "err", NoCode)
        ELSE IF fail = "prepare"
          THEN Return(images \cup {BaseImageName}, clones, setupRuns, "err",
                      NoCode)
        ELSE IF output.kind = "err" \/ output.exit_code # 0
          THEN Return(images \cup {BaseImageName}, clones, setups, "err",
                      status)
        ELSE IF fail = "commit"
          THEN Return(images \cup {BaseImageName}, clones, setups, "err",
                      status)
        ELSE Return(images \cup {BaseImageName, image_name}, clones, setups,
                    IF fail = "start" THEN "err" ELSE "ok", status)

----------------------------------------------------------------------------
\* Derivation keys of the Docker provider (workspace_providers/docker.rs).

KeyNames == {<<"n">>, <<"n", "u">>}
KeyUrls == {<<"u">>, <<"u", "u">>}
KeyPaths == {<<"p">>, <<"p", "r">>}
KeyReferences == {NoReference, Some(<<"r">>)}
KeyScripts == {<<"s">>, <<"t">>}
\* env maps of at most one entry, as env.iter() yields them.
KeyEnvs == {<< >>, <<<<<<"a">>, <<"x">>>>>>, <<<<<<"a", "x">>, << >>>>>>}

\* A call's arguments: a WorkspaceContext with one repository, and an env.
KeyInputs ==
  {[context |-> [name |-> n,
                 repositories |-> <<[url |-> u, path |-> p, reference |-> r]>>,
                 setup_script |-> s],
    env |-> e] :
     n \in KeyNames, u \in KeyUrls, p \in KeyPaths, r \in KeyReferences,
     s \in KeyScripts, e \in KeyEnvs}

InitKey ==
  /\ keyIn \in KeyInputs \X KeyInputs
  /\ keyOut = << >>

\* context_hash and repositories_hash of both inputs.
ComputeKeys ==
  /\ keyOut = << >>
  /\ keyOut' =
       [i \in 1..2 |->
          [context |-> context_hash(keyIn[i].context, keyIn[i].env),
           repositories |-> repositories_hash(keyIn[i].context.repositories)]]
  /\ UNCHANGED keyIn

----------------------------------------------------------------------------
\* Concurrent provision calls on one Docker daemon
\* (workspace_providers/docker.rs).

NumBuilders == 2
Builders == 1..NumBuilders

\* The image names of the derivation all the calls share (an empty env).
BuildTag == ImageName(context_hash(Context, << >>))
BaseTag == BaseImageName

\* failed: the Docker daemon or a command failed this call.
\* over:   a commit of this call replaced an existing image name.
Builder(step, res, failed, over) ==
  [pc |-> step, res |-> res, failed |-> failed, over |-> over]

InitBld ==
  /\ builders = [b \in Builders |-> Builder("inspect", "none", FALSE, FALSE)]
  /\ tags = {}

At(b, step) == builders[b].pc = step

Goto(b, step) ==
  builders' = [builders EXCEPT ![b].pc = step]

\* docker.commit_container(repo: image_name) on an existing name moves the
\* name to the new image.
CommitContainerRefusesExisting(imgs, image_name) ==
  [ok |-> image_name \notin imgs, images |-> imgs \cup {image_name}]

CommitContainer(imgs, image_name) ==
  [ok |-> TRUE, images |-> imgs \cup {image_name}]

\* prepare_image: inspect_image(image_name).
InspectImage(b) ==
  /\ At(b, "inspect")
  /\ Goto(b, IF BuildTag \in tags THEN "start" ELSE "inspect_base")
  /\ UNCHANGED tags

\* prepare_base_image_repositories: inspect_image(image_name).
InspectBaseImage(b) ==
  /\ At(b, "inspect_base")
  /\ Goto(b, IF BaseTag \in tags THEN "setup" ELSE "build_base")
  /\ UNCHANGED tags

\* DockerController::start under a name with a fresh uuid, then
\* provision_repositories.
BuildBase(b) ==
  /\ At(b, "build_base")
  /\ Goto(b, "commit_base")
  /\ UNCHANGED tags

\* A commit: Err ends the call, Ok goes on.
Commit(b, image_name, next) ==
  LET result == CommitContainer(tags, image_name)
  IN /\ tags' = (IF result.ok THEN result.images ELSE tags)
     /\ builders' =
          [builders EXCEPT
             ![b] = IF result.ok
                      THEN Builder(next, "none", @.failed,
                                   @.over \/ image_name \in tags)
                      ELSE Builder("done", "err", @.failed, @.over)]

\* commit_container of the base image, controller.stop().
CommitBase(b) ==
  /\ At(b, "commit_base")
  /\ Commit(b, BaseTag, "setup")

\* DockerController::start from the base image, write_file, chmod, run the
\* setup script.
RunSetup(b) ==
  /\ At(b, "setup")
  /\ Goto(b, "commit")
  /\ UNCHANGED tags

\* commit_container of the image, controller.stop().
CommitImage(b) ==
  /\ At(b, "commit")
  /\ Commit(b, BuildTag, "start")

\* provision: DockerController::start from image_name, which fails when
\* the daemon does not know the image.
StartWorkspace(b) ==
  /\ At(b, "start")
  /\ builders' =
       [builders EXCEPT
          ![b] = Builder("done", IF BuildTag \in tags THEN "ok" ELSE "err",
                         @.failed, @.over)]
  /\ UNCHANGED tags

\* The Docker daemon, a clone or the setup script fails the call at the
\* step it is at.
BuildFails(b) ==
  /\ ~At(b, "done")
  /\ builders' = [builders EXCEPT ![b] = Builder("done", "err", TRUE, @.over)]
  /\ UNCHANGED tags

----------------------------------------------------------------------------
\* Repository construction (repository.rs).  A clone url is kept in parts:
\* the scheme, the host, whether a port is given, and the path as its
\* segments; a segment is a sequence of the pieces "o", "r", "." (one dot)
\* and ".git".  An input of kind "opaque" is a url without "//" and without
\* "/" (mailto:a), one of kind "relative" is no url for Url::parse
\* (git@h:o/r.git).

Schemes == {"https", "http", "ssh"}
Segments ==
  {<<"o">>, <<"r">>, <<"r", ".git">>, <<"r", ".git", ".git">>,
   <<".", ".git">>}
SegmentLists == {<<s>> : s \in Segments} \cup (Segments \X Segments)

Url(kind, scheme, port, segs) ==
  [kind |-> kind, scheme |-> scheme, host |-> "h", port |-> port,
   segs |-> segs]

CloneUrls ==
  {Url("url", s, p, l) : s \in Schemes, p \in BOOLEAN, l \in SegmentLists}
    \cup {Url("opaque", "mailto", FALSE, << >>),
          Url("relative", "none", FALSE, <<<<"o">>, <<"r", ".git">>>>)}

NoUrl == Url("none", "none", FALSE, << >>)

\* Result<Repository>: Ok with the clone_url, Err with the message, or a
\* panic of build().
Built(kind, error, url) == [kind |-> kind, error |-> error, url |-> url]
NoBuild == Built("none", "none", NoUrl)
OnlyHttps == "Only HTTPS URLs are supported"

\* clone_url.split('/'): the number of parts, one more than the '/' of the
\* text (scheme://host[:port]/seg/seg, git@h:o/r.git, mailto:a).
Parts(u) ==
  IF u.kind = "url" THEN 3 + Len(u.segs)
  ELSE IF u.kind = "relative" THEN Len(u.segs)
  ELSE 1

\* default_repository_name: last_two[1] of the last two parts; indexing
\* panics when there is one part only.
DefaultRepositoryName(u) == IF Parts(u) < 2 THEN "panic" ELSE "ok"

\* Url::parse removes the dot segments of the path: "." is dropped, ".."
\* drops the segment before it, and either one at the end leaves the path
\* ending in "/" (an empty last segment).
RECURSIVE Normalise(_, _)
Normalise(segs, done) ==
  IF Len(segs) = 0 THEN done
  ELSE LET s == Head(segs)
           last == Len(segs) = 1
           popped == IF Len(done) = 0 THEN done
                     ELSE SubSeq(done, 1, Len(done) - 1)
       IN IF s = <<".">>
            THEN Normalise(Tail(segs), IF last THEN Append(done, << >>)
                                       ELSE done)
          ELSE IF s = <<".", ".">>
            THEN Normalise(Tail(segs), IF last THEN Append(popped, << >>)
                                       ELSE popped)
          ELSE Normalise(Tail(segs), Append(done, s))

\* str::trim_end_matches(".git"): every ".git" the text ends with goes.

RECURSIVE TrimEndMatches(_)
TrimEndMatches(seg) ==
  IF Len(seg) > 0 /\ seg[Len(seg)] = ".git"
    THEN TrimEndMatches(SubSeq(seg, 1, Len(seg) - 1))
    ELSE seg

\* uri.path().trim_end_matches(".git"): the trim meets the last segment.
TrimPath(segs) ==
  IF Len(segs) = 0 THEN segs
  ELSE [segs EXCEPT ![Len(segs)] = TrimEndMatches(@)]

\* parse_repository_url: Url::parse?, the scheme test, then
\* format!("{}://{}{}", scheme, host, path.trim_end_matches(".git")).
ParseRepositoryUrl(u) ==
  IF u.kind = "relative"
    THEN Built("err", "relative URL without a base", NoUrl)
  ELSE IF u.scheme # "https" THEN Built("err", OnlyHttps, NoUrl)
  ELSE Built("ok", "none",
             Url("url", u.scheme, FALSE,
                 TrimPath(Normalise(u.segs, << >>))))

\* RepositoryBuilder::build: the fields in the order of the struct, name and
\* full_name from default_repository_name, then clone_url.
Build(u) ==
  IF DefaultRepositoryName(u) = "panic" THEN Built("panic", "none", NoUrl)
  ELSE ParseRepositoryUrl(u)

InitRepo ==
  /\ repoIn \in CloneUrls
  /\ repoOut = NoBuild
  /\ repoAgain = NoBuild

\* Repository::from_url(clone_url).build().
BuildRepository ==
  /\ repoOut = NoBuild
  /\ repoOut' = Build(repoIn)
  /\ UNCHANGED <<repoIn, repoAgain>>

\* Repository::from_url(repository.clone_url).build().
BuildAgain ==
  /\ repoOut.kind = "ok"
  /\ repoAgain = NoBuild
  /\ repoAgain' = Build(repoOut.url)
  /\ UNCHANGED <<repoIn, repoOut>>

----------------------------------------------------------------------------
\* One provision call: LocalTempSyncProvider::provision, and
\* DockerProvider::prepare_image with prepare_base_image_repositories when
\* no image is cached.  Of the commands of one repository the clone is
\* modelled, the others (ls, mkdir, remote remove) run cleanly.

NumRepositories == 2

\* The worlds a command of the mode's controller can run in, without a
\* timeout argument.
ProvisionWorlds(m) ==
  {w \in Worlds : w.backend = m /\ w.timeout = "none" /\ Possible(w)}

Entry(what, w) == [what |-> what, w |-> w]

\* The command ran and terminated with status 0.
Succeeded(w) == Executed(w) /\ Status(w) = 0

RepositoryEntries == {i \in DOMAIN prvLog : prvLog[i].what = "repository"}
SetupEntries == {i \in DOMAIN prvLog : prvLog[i].what = "setup"}

InitPrv ==
  /\ prvMode \in Modes
  /\ prvLog = << >>
  /\ prvRes = "none"

\* The next repository of context.repositories: git clone through cmd with
\* `?`, as the loops of both backends reach it.
ProvisionRepository(w) ==
  /\ prvRes = "none"
  /\ Len(prvLog) < NumRepositories
  /\ prvLog' = Append(prvLog, Entry("repository", w))
  /\ prvRes' = IF Cmd(w).kind = "err" THEN "err" ELSE "none"
  /\ UNCHANGED prvMode

\* The setup script, after the loop over the repositories: local mode
\* cmd_with_output(setup_script, ..)?; docker mode cmd_with_output(
\* "/tmp/setup.sh", ..)? and the test of output.exit_code.
RunSetupScript(w) ==
  LET output == CmdWithOutput(w)
      failed == \/ output.kind = "err"
                \/ prvMode = "docker" /\ output.exit_code # 0
  IN /\ prvRes = "none"
     /\ Len(prvLog) = NumRepositories
     /\ prvLog' = Append(prvLog, Entry("setup", w))
     /\ prvRes' = IF failed THEN "err" ELSE "ok"
     /\ UNCHANGED prvMode

----------------------------------------------------------------------------
\* Containers and the life of their DockerController
\* (workspace_controllers/docker.rs, workspace_providers/docker.rs).

NumContainers == 2
ContainerIds == 1..NumContainers

\* use      "build" for the containers of prepare_image and
\*          prepare_base_image_repositories, "workspace" for the one that
\*          provision returns
\* state    of the container: "none", "failed" (create or start failed),
\*          "running", "removed"
\* ctl      of the controller: "none", "live", "stopped" (stop() was
\*          called and the caller let go of it), "dropped"
\* pending  the task spawned by drop has not run yet
\* removals where remove_container was issued from: "stop", "drop"
Container(use, state, ctl, pending, removals) ==
  [use |-> use, state |-> state, ctl |-> ctl, pending |-> pending,
   removals |-> removals]

InitCtr ==
  containers =
    [c \in ContainerIds |-> Container("none", "none", "none", FALSE, {})]

\* impl Drop for DockerController: handle.spawn(stop_container(..)).
DropSpawnsNothing(pending) == pending

DropSpawns(pending) == TRUE

\* DockerController::start: create_container?, start_container?.
StartContainer(c, use, ok) ==
  /\ containers[c].state = "none"
  /\ containers' =
       [containers EXCEPT
          ![c] = IF ok THEN Container(use, "running", "live", FALSE, {})
                 ELSE Container(use, "failed", "none", FALSE, {})]

\* controller.stop(): remove_container(force).  prepare_image and
\* prepare_base_image_repositories return after it, with its error or
\* without; destroy_workspace keeps the controller registered on an error.
StopController(c, ok) ==
  LET me == containers[c]
  IN /\ me.ctl = "live"
     /\ containers' =
          [containers EXCEPT
             ![c] = Container(me.use,
                              IF ok THEN "removed" ELSE me.state,
                              IF ok \/ me.use = "build" THEN "stopped"
                              ELSE "live",
                              me.pending, me.removals \cup {"stop"})]

\* The controller goes out of scope: at the end of a prepare call or at
\* the `?` that leaves it, and at workspaces.remove after a stop.
DropController(c) ==
  LET me == containers[c]
  IN /\ \/ me.ctl = "stopped"
        \/ me.ctl = "live" /\ me.use = "build"
     /\ containers' =
          [containers EXCEPT
             ![c] = Container(me.use, me.state, "dropped",
                              DropSpawns(me.pending), me.removals)]

\* The task spawned by drop runs: stop_container.
SpawnedRemoval(c, ok) ==
  LET me == containers[c]
  IN /\ me.pending
     /\ containers' =
          [containers EXCEPT
             ![c] = Container(me.use,
                              IF ok /\ me.state = "running" THEN "removed"
                              ELSE me.state,
                              me.ctl, FALSE, me.removals \cup {"drop"})]

vars == <<regVars, wsVars, ctlVars, fsVars, envVars, gitVars, imgVars, keyVars, bldVars, repoVars, prvVars, ctrVars>>

\* The parts of the state a specification does not use stay as they are.
RegUnused ==
  /\ mode = "docker"
  /\ workspaces = << >>
  /\ files = [r \in Roots |-> EmptyFs]
  /\ ran = [r \in Roots |-> 0]
  /\ serverLock = NoTask
  /\ lockQ = << >>
  /\ pc = [t \in Tasks |-> "idle"]
  /\ req = [t \in Tasks |-> NoReq]
  /\ resp = NoResp
  /\ issued = {}
  /\ returned = {}
  /\ removed = {}

WsUnused ==
  /\ integrationTesting = FALSE
  /\ github = FALSE
  /\ wsHolder = NoCaller
  /\ wsWaiters = << >>
  /\ caller = [c \in Callers |-> Idle]
  /\ repoUrl = "plain"
  /\ arrivals = << >>

CtlUnused ==
  /\ world = IdleWorld
  /\ cmdRes = NoOut
  /\ cwoRes = NoOut

FsUnused ==
  /\ fsBackend = "local"
  /\ dirs = {RootPath}
  /\ disk = [l \in Locations |-> NoFile]
  /\ latest = [l \in Locations |-> NoFile]
  /\ fsLast = NoCall
  /\ stopped = FALSE

EnvUnused ==
  /\ hostEnv = EmptyEnv
  /\ whitelisted_env = EmptyEnv
  /\ callEnv = NoEnv
  /\ procEnv = NoEnv

GitUnused ==
  /\ gitBackend = "local"
  /\ repository_url = PlainUrl
  /\ hasRepo = FALSE
  /\ origin = NoOrigin
  /\ logs = {}
  /\ gitDone = Done("none", "none")
  /\ gitRun = NoRun
  /\ defaultBranch = "master"

ImgUnused ==
  /\ imgEnv = [k \in ImgEnvKeys |-> NoEntry]
  /\ images = {}
  /\ setupRuns = 0
  /\ cloneRuns = 0
  /\ imgKeys = << >>
  /\ imgRes = << >>
  /\ imgRuns = << >>

KeyUnused ==
  /\ keyIn = << >>
  /\ keyOut = << >>

BldUnused ==
  /\ builders = << >>
  /\ tags = {}

RepoUnused ==
  /\ repoIn = << >>
  /\ repoOut = << >>
  /\ repoAgain = << >>

PrvUnused ==
  /\ prvMode = "docker"
  /\ prvLog = << >>
  /\ prvRes = "none"

CtrUnused ==
  /\ containers = << >>

notReg == <<wsVars, ctlVars, fsVars, envVars, gitVars, imgVars, keyVars, bldVars, repoVars, prvVars, ctrVars>>
notWs == <<regVars, ctlVars, fsVars, envVars, gitVars, imgVars, keyVars, bldVars, repoVars, prvVars, ctrVars>>
notCtl == <<regVars, wsVars, fsVars, envVars, gitVars, imgVars, keyVars, bldVars, repoVars, prvVars, ctrVars>>
notFs == <<regVars, wsVars, ctlVars, envVars, gitVars, imgVars, keyVars, bldVars, repoVars, prvVars, ctrVars>>
notEnv == <<regVars, wsVars, ctlVars, fsVars, gitVars, imgVars, keyVars, bldVars, repoVars, prvVars, ctrVars>>
notGit == <<regVars, wsVars, ctlVars, fsVars, envVars, imgVars, keyVars, bldVars, repoVars, prvVars, ctrVars>>
notImg == <<regVars, wsVars, ctlVars, fsVars, envVars, gitVars, keyVars, bldVars, repoVars, prvVars, ctrVars>>
notKey == <<regVars, wsVars, ctlVars, fsVars, envVars, gitVars, imgVars, bldVars, repoVars, prvVars, ctrVars>>
notBld == <<regVars, wsVars, ctlVars, fsVars, envVars, gitVars, imgVars, keyVars, repoVars, prvVars, ctrVars>>
notRepo == <<regVars, wsVars, ctlVars, fsVars, envVars, gitVars, imgVars, keyVars, bldVars, prvVars, ctrVars>>
notPrv == <<regVars, wsVars, ctlVars, fsVars, envVars, gitVars, imgVars, keyVars, bldVars, repoVars, ctrVars>>
notCtr == <<regVars, wsVars, ctlVars, fsVars, envVars, gitVars, imgVars, keyVars, bldVars, repoVars, prvVars>>

\* The registry with no Workspace in use.
Init ==
  /\ InitReg
  /\ WsUnused
  /\ CtlUnused
  /\ FsUnused
  /\ EnvUnused
  /\ GitUnused
  /\ ImgUnused
  /\ KeyUnused
  /\ BldUnused
  /\ RepoUnused
  /\ PrvUnused
  /\ CtrUnused

Next ==
  \/ \E t \in Tasks : Request(t) /\ UNCHANGED notReg
  \/ \E t \in Tasks, op \in Ops, id \in Ids, p \in Paths, c \in Contents :
        Acquire(t, op, id, p, c) /\ UNCHANGED notReg
  \/ \E t \in Tasks : CreateStart(t) /\ UNCHANGED notReg
  \/ \E t \in Tasks, provisioned \in BOOLEAN :
        CreateFinish(t, provisioned) /\ UNCHANGED notReg
  \/ \E t \in Tasks : DestroyStart(t) /\ UNCHANGED notReg
  \/ \E t \in Tasks, outcome \in {"ok", "err", "panic"} :
        DestroyFinish(t, outcome) /\ UNCHANGED notReg
  \/ \E t \in Tasks : ListWorkspaces(t) /\ UNCHANGED notReg
  \/ \E t \in Tasks : WsStart(t) /\ UNCHANGED notReg
  \/ \E t \in Tasks, ok \in BOOLEAN : WsFinish(t, ok) /\ UNCHANGED notReg

Spec == Init /\ [][Next]_vars

\* One Workspace, used directly, with no registry.
InitWsOnly ==
  /\ InitWs
  /\ RegUnused
  /\ CtlUnused
  /\ FsUnused
  /\ EnvUnused
  /\ GitUnused
  /\ ImgUnused
  /\ KeyUnused
  /\ BldUnused
  /\ RepoUnused
  /\ PrvUnused
  /\ CtrUnused

NextWs ==
  \/ \E c \in Callers, op \in WorkspaceMethods :
        Invoke(c, op) /\ UNCHANGED notWs
  \/ \E c \in Callers : Grant(c) /\ UNCHANGED notWs
  \/ \E c \in Callers : StepStart(c) /\ UNCHANGED notWs
  \/ \E c \in Callers, ok \in BOOLEAN : StepEnd(c, ok) /\ UNCHANGED notWs
  \/ \E c \in Callers : HeldEnd(c) /\ UNCHANGED notWs
  \/ \E c \in Callers : TeardownAgain(c) /\ UNCHANGED notWs

SpecWs == InitWsOnly /\ [][NextWs]_vars

\* The calls of the controller and of the Git-hosting integration
\* terminate, the runtime polls every task that can go on, and the mutex
\* is handed to the waiter it is due to.
FairWs ==
  \A c \in Callers :
    /\ WF_vars(Grant(c) /\ UNCHANGED notWs)
    /\ WF_vars(StepStart(c) /\ UNCHANGED notWs)
    /\ WF_vars(\E ok \in BOOLEAN : StepEnd(c, ok) /\ UNCHANGED notWs)
    /\ WF_vars(HeldEnd(c) /\ UNCHANGED notWs)
    /\ WF_vars(TeardownAgain(c) /\ UNCHANGED notWs)

SpecWsLive == InitWsOnly /\ [][NextWs]_vars /\ FairWs

\* One controller, one command, every outcome of the environment.
InitCtlOnly ==
  /\ InitCtl
  /\ RegUnused
  /\ WsUnused
  /\ FsUnused
  /\ EnvUnused
  /\ GitUnused
  /\ ImgUnused
  /\ KeyUnused
  /\ BldUnused
  /\ RepoUnused
  /\ PrvUnused
  /\ CtrUnused

NextCtl ==
  \/ CallCmd /\ UNCHANGED notCtl
  \/ CallCmdWithOutput /\ UNCHANGED notCtl

SpecCtl == InitCtlOnly /\ [][NextCtl]_vars

\* One controller and its files.
InitFsOnly ==
  /\ InitFs
  /\ RegUnused
  /\ WsUnused
  /\ CtlUnused
  /\ EnvUnused
  /\ GitUnused
  /\ ImgUnused
  /\ KeyUnused
  /\ BldUnused
  /\ RepoUnused
  /\ PrvUnused
  /\ CtrUnused

NextFs ==
  \/ \E f \in FileNames, w \in WorkingDirs, c \in FsContents,
         env \in {"ok", "err"} :
        FsWriteFile(f, w, c, env) /\ UNCHANGED notFs
  \/ \E f \in FileNames, w \in WorkingDirs :
        FsReadFile(f, w) /\ UNCHANGED notFs
  \/ \E op \in {"cmd", "cmd_with_output"}, w \in WorkingDirs :
        FsCmd(op, w) /\ UNCHANGED notFs
  \/ \E env \in {"ok", "err"} : FsStop(env) /\ UNCHANGED notFs

SpecFs == InitFsOnly /\ [][NextFs]_vars

\* One local controller and the commands it runs.
InitEnvOnly ==
  /\ InitEnv
  /\ RegUnused
  /\ WsUnused
  /\ CtlUnused
  /\ FsUnused
  /\ GitUnused
  /\ ImgUnused
  /\ KeyUnused
  /\ BldUnused
  /\ RepoUnused
  /\ PrvUnused
  /\ CtrUnused

NextEnv ==
  \/ \E env \in [EnvKeys -> CallValues \cup {NoVal}] :
        EnvCmd(env) /\ UNCHANGED notEnv

SpecEnv == InitEnvOnly /\ [][NextEnv]_vars

\* One controller with one repository: provisioning, Workspace::init and
\* commands, in any order.
InitGitOnly ==
  /\ InitGit
  /\ RegUnused
  /\ WsUnused
  /\ CtlUnused
  /\ FsUnused
  /\ EnvUnused
  /\ ImgUnused
  /\ KeyUnused
  /\ BldUnused
  /\ RepoUnused
  /\ PrvUnused
  /\ CtrUnused

NextGit ==
  \/ \E url \in {PlainUrl, TokenUrl("SECRET")}, fail \in GitSteps :
        Provision(url, fail) /\ UNCHANGED notGit
  \/ \E session \in {"none", "ok", "err"}, fail \in GitSteps :
        WsInit(session, fail) /\ UNCHANGED notGit
  \/ \E cmd \in {<<"echo hi">>, CloneCmd(TokenUrl("SECRET"), "path"),
                 <<"git push ">> \o PlainUrl} :
        GitCmd(cmd) /\ UNCHANGED notGit

SpecGit == InitGitOnly /\ [][NextGit]_vars

\* One Docker provider asked repeatedly for the same context and env.
InitImgOnly ==
  /\ InitImg
  /\ RegUnused
  /\ WsUnused
  /\ CtlUnused
  /\ FsUnused
  /\ EnvUnused
  /\ GitUnused
  /\ KeyUnused
  /\ BldUnused
  /\ RepoUnused
  /\ PrvUnused
  /\ CtrUnused

NextImg ==
  \/ \E order \in IterOrders(imgEnv),
        fail \in {"none", "clone", "prepare", "commit", "start"},
        w \in SetupWorlds :
        ProvisionImage(order, fail, w) /\ UNCHANGED notImg

SpecImg == InitImgOnly /\ [][NextImg]_vars

InitKeyOnly ==
  /\ InitKey
  /\ RegUnused
  /\ WsUnused
  /\ CtlUnused
  /\ FsUnused
  /\ EnvUnused
  /\ GitUnused
  /\ ImgUnused
  /\ BldUnused
  /\ RepoUnused
  /\ PrvUnused
  /\ CtrUnused

NextKey ==
  \/ ComputeKeys /\ UNCHANGED notKey

SpecKey == InitKeyOnly /\ [][NextKey]_vars

InitBldOnly ==
  /\ InitBld
  /\ RegUnused
  /\ WsUnused
  /\ CtlUnused
  /\ FsUnused
  /\ EnvUnused
  /\ GitUnused
  /\ ImgUnused
  /\ KeyUnused
  /\ RepoUnused
  /\ PrvUnused
  /\ CtrUnused

NextBld ==
  \/ \E b \in Builders : InspectImage(b) /\ UNCHANGED notBld
  \/ \E b \in Builders : InspectBaseImage(b) /\ UNCHANGED notBld
  \/ \E b \in Builders : BuildBase(b) /\ UNCHANGED notBld
  \/ \E b \in Builders : CommitBase(b) /\ UNCHANGED notBld
  \/ \E b \in Builders : RunSetup(b) /\ UNCHANGED notBld
  \/ \E b \in Builders : CommitImage(b) /\ UNCHANGED notBld
  \/ \E b \in Builders : StartWorkspace(b) /\ UNCHANGED notBld
  \/ \E b \in Builders : BuildFails(b) /\ UNCHANGED notBld

SpecBld == InitBldOnly /\ [][NextBld]_vars

InitRepoOnly ==
  /\ InitRepo
  /\ RegUnused
  /\ WsUnused
  /\ CtlUnused
  /\ FsUnused
  /\ EnvUnused
  /\ GitUnused
  /\ ImgUnused
  /\ KeyUnused
  /\ BldUnused
  /\ PrvUnused
  /\ CtrUnused

NextRepo ==
  \/ BuildRepository /\ UNCHANGED notRepo
  \/ BuildAgain /\ UNCHANGED notRepo

SpecRepo == InitRepoOnly /\ [][NextRepo]_vars

InitPrvOnly ==
  /\ InitPrv
  /\ RegUnused
  /\ WsUnused
  /\ CtlUnused
  /\ FsUnused
  /\ EnvUnused
  /\ GitUnused
  /\ ImgUnused
  /\ KeyUnused
  /\ BldUnused
  /\ RepoUnused
  /\ CtrUnused

NextPrv ==
  \/ \E w \in ProvisionWorlds(prvMode) :
        ProvisionRepository(w) /\ UNCHANGED notPrv
  \/ \E w \in ProvisionWorlds(prvMode) :
        RunSetupScript(w) /\ UNCHANGED notPrv

SpecPrv == InitPrvOnly /\ [][NextPrv]_vars

InitCtrOnly ==
  /\ InitCtr
  /\ RegUnused
  /\ WsUnused
  /\ CtlUnused
  /\ FsUnused
  /\ EnvUnused
  /\ GitUnused
  /\ ImgUnused
  /\ KeyUnused
  /\ BldUnused
  /\ RepoUnused
  /\ PrvUnused

NextCtr ==
  \/ \E c \in ContainerIds, use \in {"build", "workspace"}, ok \in BOOLEAN :
        StartContainer(c, use, ok) /\ UNCHANGED notCtr
  \/ \E c \in ContainerIds, ok \in BOOLEAN :
        StopController(c, ok) /\ UNCHANGED notCtr
  \/ \E c \in ContainerIds : DropController(c) /\ UNCHANGED notCtr
  \/ \E c \in ContainerIds, ok \in BOOLEAN :
        SpawnedRemoval(c, ok) /\ UNCHANGED notCtr

\* The runtime runs every spawned task, and a prepare call, whose Docker
\* calls return, comes to its end.
FairCtr ==
  \A c \in ContainerIds :
    /\ WF_vars(\E ok \in BOOLEAN : SpawnedRemoval(c, ok) /\ UNCHANGED notCtr)
    /\ WF_vars(DropController(c) /\ containers[c].use = "build"
                 /\ UNCHANGED notCtr)

SpecCtr == InitCtrOnly /\ [][NextCtr]_vars /\ FairCtr

----------------------------------------------------------------------------
(***************************************************************************)
(* Properties of the registry, checked under Spec.                         *)
(***************************************************************************)

\* C1: once destroy_workspace(id) has returned true, every later cmd,
\* cmd_with_output, write_file and read_file call on that id answers
\* "workspace not found".
C1_DestroyedIdNotFound ==
  (resp.req.op \in WsOps /\ resp.req.afterDestroy)
    => resp.res.kind = "notfound"

C1_Witness ==
  /\ resp.req.op = "cmd"
  /\ resp.req.afterDestroy
  /\ resp.res.kind = "notfound"

\* C2: destroy_workspace(id) returns true exactly when id is registered at
\* the time of the call and false exactly when it is absent.
C2_DestroyTrueIffPresent ==
  resp.req.op = "destroy"
    => /\ resp.res.kind = "true" <=> resp.req.present
       /\ resp.res.kind = "false" <=> ~resp.req.present

\* C3: the registry holds, and list_workspaces returns, exactly the ids
\* returned by successful create_workspace calls and not since removed by a
\* destroy_workspace; a failing create_workspace adds none.
C3_ListIsCreatedMinusDestroyed ==
  /\ DOMAIN workspaces = returned \ removed
  /\ resp.req.op = "list" => resp.res.ids = returned \ removed
  /\ (resp.req.op = "create" /\ resp.res.kind = "id")
       => resp.res.id \in DOMAIN workspaces

C3_Witness ==
  /\ resp.req.op = "list"
  /\ resp.res.ids # {}
  /\ removed # {}

\* C4: a cmd, cmd_with_output, write_file or read_file call on an id that is
\* not registered answers "workspace not found" and changes neither the
\* registry nor any workspace: no command runs, no file is written.
C4_AbsentIdChangesNothing ==
  [][\A t \in Tasks :
       (/\ pc[t] = "locked"
        /\ req[t].op \in WsOps
        /\ ~req[t].present
        /\ pc'[t] # "locked")
         => /\ pc'[t] = "idle"
            /\ resp'.res.kind = "notfound"
            /\ UNCHANGED <<workspaces, files, ran>>]_vars

C4_Witness ==
  /\ resp.req.op = "write_file"
  /\ ~resp.req.present
  /\ resp.res.kind = "notfound"
  /\ DOMAIN workspaces # {}

\* C6: the registry lock is never held across a workspace operation: no
\* handler holds the Mutex<Server> guard while its controller call or its
\* provisioning is in flight.
C6_LockNotHeldAcrossOperation ==
  \A t \in Tasks : pc[t] \in {"exec", "provision"} => serverLock # t


----------------------------------------------------------------------------
(***************************************************************************)
(* Properties of the Workspace mutex, checked under SpecWs.                *)
(***************************************************************************)

C8_FifoOrder ==
  \A b \in Callers :
    caller[b].pc = "call" => (arrivals # << >> /\ Head(arrivals) = b)

C8_Witness ==
  \E a, b \in Callers :
    /\ a # b
    /\ caller[b].pc = "call" /\ caller[b].op = "cmd_with_output"
    /\ caller[a].pc = "wait" /\ caller[a].op = "cmd"
    /\ arrivals = <<b, a>>

\* C9: between the first and the last controller command of one init call
\* no controller command of another operation on the same Workspace runs.
InitUnderWay(a) ==
  /\ caller[a].op = "init"
  /\ caller[a].phase \notin {"auth_read", "token_rpc", "auth_store"}
  /\ ~(caller[a].phase = "adapter_init" /\ caller[a].pc \in {"wait", "held"})

C9_InitSerialised ==
  \A a, b \in Callers :
    (a # b /\ InitUnderWay(a)) => caller[b].pc # "call"

----------------------------------------------------------------------------
(***************************************************************************)
(* Properties of command execution, checked under SpecCtl.                 *)
(***************************************************************************)

\* C10: on every backend cmd_with_output returns exit_code 0 if and only if
\* cmd with the same arguments in the same state succeeds, and cmd returns
\* an error exactly when the command's exit code is non-zero: a cmd that
\* succeeds ran a command that terminated with 0, and a command that
\* terminates with a non-zero code makes cmd fail.
C10_CmdAgreesWithExitCode ==
  (cmdRes # NoOut /\ cwoRes # NoOut)
    => /\ (cwoRes.kind = "ok" /\ cwoRes.exit_code = 0) <=> cmdRes.kind = "ok"
       /\ Executed(world) => (cmdRes.kind = "ok" => Status(world) = 0)
       /\ (Executed(world) /\ Status(world) # 0) => cmdRes.kind = "err"

\* C11: on every backend cmd_with_output does not fail because the command
\* exited non-zero: a command that was started and exited with code c # 0,
\* with no execution failure around it, yields a CommandOutput with
\* exit_code = c.
C11_NonZeroExitIsNotAnError ==
  (cwoRes # NoOut /\ CleanRun(world) /\ Status(world) # 0)
    => (cwoRes.kind = "ok" /\ cwoRes.exit_code = Status(world))

\* C12: on every backend, when a timeout is set and the command would run
\* longer, cmd_with_output stops the command at the timeout and returns a
\* CommandOutput with a non-zero exit code, not an error; the command does
\* not run to completion.
C12_TimeoutStopsCommand ==
  (cwoRes # NoOut /\ CleanRun(world) /\ world.timeout # "none" /\ world.long)
    => /\ Killed(world)
       /\ cwoRes.kind = "ok"
       /\ cwoRes.exit_code # 0

----------------------------------------------------------------------------
(***************************************************************************)
(* Properties of paths and files, checked under SpecFs.                    *)
(***************************************************************************)

\* C13: on every backend, after a successful write_file(p, b, w) a
\* read_file(p, w) returns exactly the content of the most recent
\* successful write to that file.
C13_ReadReturnsLastWrite ==
  (fsLast.op = "read_file" /\ latest[Meant(fsLast.file, fsLast.wd)] # NoFile)
    => /\ fsLast.kind = "ok"
       /\ fsLast.out = latest[Meant(fsLast.file, fsLast.wd)]

\* C14: on every backend and for each of cmd, cmd_with_output, write_file
\* and read_file, working_dir "/x" and working_dir "x" give the same
\* effective directory: x under the workspace root.
C14_WorkingDirRelativeToRoot ==
  fsLast.wd \in {"x", "/x"}
    => fsLast.dir = Join(RootPath, PathOf("x"))

\* C15: on every backend write_file succeeds when the parent directories of
\* the file do not exist yet: it creates them and stores the content.
C15_WriteCreatesParents ==
  (fsLast.op = "write_file" /\ ~fsLast.hadParent /\ fsLast.env = "ok")
    => /\ fsLast.kind = "ok"
       /\ Parent(WriteTarget(fsBackend, fsLast.file, fsLast.wd)) \in dirs
       /\ disk[WriteTarget(fsBackend, fsLast.file, fsLast.wd)]
            = fsLast.content

----------------------------------------------------------------------------
(***************************************************************************)
(* Properties of the command environment, checked under SpecEnv.           *)
(***************************************************************************)

\* C16: in the local controller the environment of every executed command
\* is exactly the allow-listed host variables overlaid with the caller's
\* env, the caller's value winning on a shared key; no other host variable
\* reaches the command unless the caller supplied it.
C16_EnvIsAllowListPlusCaller ==
  procEnv # NoEnv =>
    \A k \in EnvKeys :
      procEnv[k] = IF callEnv[k] # NoVal THEN callEnv[k]
                   ELSE IF k \in {"PATH", "CARGO_HOME", "RUST_HOME",
                                  "RUST_VERSION"}
                     THEN hostEnv[k]
                   ELSE NoVal

\* A command has run where the host sets a variable outside the allow-list
\* that the caller did not supply, and the caller overrides PATH.
C16_Witness ==
  /\ procEnv # NoEnv
  /\ hostEnv["HOME"] # NoVal
  /\ callEnv["HOME"] = NoVal
  /\ hostEnv["PATH"] # NoVal
  /\ callEnv["PATH"] # NoVal
  /\ procEnv["PATH"] = callEnv["PATH"]

----------------------------------------------------------------------------
(***************************************************************************)
(* Properties of credentials, checked under SpecGit.                       *)
(***************************************************************************)

\* C17: for every controller, no log line emitted while executing a command
\* or provisioning a repository shows the credential of an
\* x-access-token:<token>@ URL of the command or of the repository URL.
C17_NoCredentialInLogs ==
  \A line \in logs : ~HasSecret(line)

\* C18: on every backend, after provision_repositories has returned
\* success the repository has no origin remote in its on-disk Git config.
C18_NoOriginAfterProvision ==
  gitDone = Done("provision", "ok") => origin = NoOrigin

\* C19: after Workspace.init has completed with a token-bearing repository
\* URL, the token is not in the on-disk Git config, on the clone path and
\* on the refresh-remote path.
C19_NoTokenInConfigAfterInit ==
  (gitDone = Done("init", "ok") /\ HasSecret(repository_url))
    => ~HasSecret(origin)

----------------------------------------------------------------------------
(***************************************************************************)
(* Properties of the image cache, checked under SpecImg.                   *)
(***************************************************************************)

\* C20: two successive provision calls with the same context and env, for
\* env maps of any size, compute the same derivation key and image tag, and
\* when the first call succeeded the second finds the image: it does not
\* run the setup script or clone the repositories again.
C20_SecondProvisionHitsCache ==
  \A i \in 1..(Len(imgKeys) - 1) :
    /\ imgKeys[i + 1] = imgKeys[i]
    /\ ImageName(imgKeys[i + 1]) = ImageName(imgKeys[i])
    /\ (i = 1 /\ imgRes[1] = "ok") => (setupRuns = 1 /\ cloneRuns = 1)

\* C21: two (context, env) inputs that differ in the name, in the url, path
\* or reference of a repository, in the setup script, or in an env key or
\* value have different full-context keys, and two repository lists that
\* differ in a field have different repositories-only keys.
C21_KeySeparatesInputs ==
  keyOut # << >> =>
    /\ keyIn[1] # keyIn[2] => keyOut[1].context # keyOut[2].context
    /\ keyIn[1].context.repositories # keyIn[2].context.repositories
         => keyOut[1].repositories # keyOut[2].repositories

\* C22: a provision call whose setup script terminates with a non-zero
\* status returns an error and leaves no image under the full-context tag,
\* and the next call with the same key, unless the daemon fails it before
\* the script, runs the setup script again.
C22_FailedSetupCommitsNothing ==
  \A i \in 1..Len(imgRuns) :
    imgRuns[i].setup \notin {NoCode, 0} =>
      /\ imgRes[i] = "err"
      /\ ~imgRuns[i].tagged
      /\ (i < Len(imgRuns) /\ imgKeys[i + 1] = imgKeys[i]) =>
           (imgRuns[i + 1].setup # NoCode \/ imgRes[i + 1] = "err")

\* C23: of the provision calls that run concurrently for one derivation,
\* every call that the daemon, the clone and the setup script do not fail
\* returns successfully with the image name known to the daemon, under
\* every interleaving, also when its commit replaces the other's image.
C23_ConcurrentBuildsSucceed ==
  \A b \in Builders :
    (builders[b].pc = "done" /\ ~builders[b].failed) =>
      (builders[b].res = "ok" /\ BuildTag \in tags)

\* Both calls built and returned, and a commit replaced an existing image.
C23_Witness ==
  /\ \A b \in Builders :
       builders[b].pc = "done" /\ builders[b].res = "ok"
  /\ \E b \in Builders : builders[b].over

\* C24: in both modes stop() returns with the workspace's resources
\* released, so destroy_workspace on a registered id, unless the Docker
\* daemon fails the removal, returns true and the workspace is gone.
C24_DestroyOfLiveIdReturnsTrue ==
  (resp.req.op = "destroy" /\ resp.req.present /\ resp.res.kind # "err")
    => (resp.res.kind = "true" /\ resp.req.id \in removed)

\* C26: two workspaces registered at the same time, in either mode, have
\* disjoint filesystem state: their controllers work on different roots.
C26_LiveWorkspacesAreDisjoint ==
  \A i, j \in RegistryKeys(workspaces) :
    i # j => RegistryGet(workspaces, i) # RegistryGet(workspaces, j)

\* C25: once stop() has succeeded on a container controller, every later
\* cmd, cmd_with_output, write_file and read_file returns an error, no
\* command is started and no file or directory comes to exist.
C25_NoOperationAfterStop ==
  stopped =>
    /\ fsLast.op # "stop" => fsLast.kind = "err"
    /\ dirs = {}
    /\ \A l \in Locations : disk[l] = NoFile

\* A write_file with a working file system was attempted after the stop.
C25_Witness ==
  /\ stopped
  /\ fsLast.op = "write_file"
  /\ fsLast.content \in FsContents

C28_OnlyHttpsAndIdempotent ==
  /\ (repoOut # NoBuild /\ repoIn.kind # "relative"
        /\ repoIn.scheme # "https")
       => repoOut = Built("err", OnlyHttps, NoUrl)
  /\ repoOut.kind = "ok" =>
       /\ repoIn.scheme = "https"
       /\ repoOut.url.scheme = "https"
       /\ \A i \in DOMAIN repoOut.url.segs :
            i = Len(repoOut.url.segs) =>
              TrimEndMatches(repoOut.url.segs[i]) = repoOut.url.segs[i]
  /\ repoAgain # NoBuild => repoAgain = repoOut

\* C29: after credential injection and adapter init, Workspace.init takes,
\* when the repository is found, configure_git, update_remote and
\* clean_repository in that order and does not clone, and otherwise
\* clone_repository and then configure_git without refresh or clean; it
\* stops at the first step that fails and returns the error, and returns
\* success only after the last step.
C29_InitLifecycleOrder ==
  (gitDone.op = "init" /\ gitRun.failedAt # "authenticate") =>
    LET order == IF gitRun.found
                   THEN <<"configure_git", "update_remote",
                          "clean_repository">>
                   ELSE <<"clone_repository", "configure_git">>
        n == Len(gitRun.steps)
    IN /\ n \in 1..Len(order)
       /\ gitRun.steps = SubSeq(order, 1, n)
       /\ gitDone.result = "ok" <=> gitRun.failedAt = "none"
       /\ gitRun.failedAt = "none" => n = Len(order)
       /\ gitRun.failedAt # "none" => gitRun.steps[n] = gitRun.failedAt

\* An init found the repository and went through to clean_repository.
C29_Witness ==
  /\ gitDone = Done("init", "ok")
  /\ gitRun.found
  /\ Len(gitRun.steps) = 3

\* C30: on every backend provision_repositories decides by the presence of
\* .git/config: absent, it creates the path and clones; present, it does
\* not clone, attaches origin again and pulls the default branch of the
\* repository, whatever that branch is called.
C30_ProvisionClonesOrPulls ==
  (gitDone.op = "provision" /\ gitBackend # "testing") =>
    LET took == {gitRun.steps[i] : i \in DOMAIN gitRun.steps}
    IN /\ (~gitRun.had /\ gitRun.failedAt \notin {"ls", "mkdir"})
            => {"mkdir", "clone"} \subseteq took
       /\ gitRun.had => "clone" \notin took
       /\ (gitRun.had /\ gitRun.failedAt \notin {"ls", "add"})
            => ("add" \in took /\ gitRun.pulled = defaultBranch)

\* C31: the repositories are provisioned in the order of the context; a
\* repository is touched only after the one before it was provisioned
\* successfully, and when provisioning a repository fails the call returns
\* the error and touches no later repository.
C31_RepositoriesInOrder ==
  \A i \in RepositoryEntries :
    /\ \A j \in 1..(i - 1) :
         prvLog[j].what = "repository" /\ Succeeded(prvLog[j].w)
    /\ ~Succeeded(prvLog[i].w) => (prvRes = "err" /\ Len(prvLog) = i)

\* C32: in both modes the setup script is run only after every repository
\* of the context was provisioned successfully, once per build, and a
\* non-zero exit of the script makes provision fail.
C32_SetupAfterRepositoriesOnce ==
  \A i \in SetupEntries :
    /\ i = NumRepositories + 1
    /\ \A j \in 1..NumRepositories :
         prvLog[j].what = "repository" /\ Succeeded(prvLog[j].w)
    /\ SetupEntries = {i}
    /\ (Executed(prvLog[i].w) /\ Status(prvLog[i].w) # 0) => prvRes = "err"

\* C33: when GithubSession::try_new gives no session, Workspace.init does
\* not fail for that reason: authentication returns success, the stored
\* repository url stays as it was, and init goes on to adapter init and
\* the Git lifecycle.
C33_NoSessionIsNotAnError ==
  [][\A fail \in GitSteps :
       WsInit("none", fail) =>
         /\ repository_url' = repository_url
         /\ gitRun'.failedAt # "authenticate"
         /\ Len(gitRun'.steps) >= 1
         /\ gitRun'.steps[1] \in {"configure_git", "clone_repository"}]_vars

\* An init without a session has completed, the url still without token.
C33_Witness ==
  /\ gitDone = Done("init", "ok")
  /\ repository_url = PlainUrl
  /\ Len(gitRun.steps) >= 1

\* C34: in the container backend, when reading the output stream of the
\* exec fails before the output is complete, cmd_with_output returns an
\* error; a CommandOutput it returns holds the whole output.
C34_BrokenStreamIsAnError ==
  (cwoRes # NoOut /\ world.backend = "docker") =>
    /\ (Executed(world) /\ world.stream = "broken") => cwoRes.kind = "err"
    /\ cwoRes.kind = "ok" => cwoRes.complete

\* C39: in the container backend the exit_code of a returned CommandOutput
\* is the exit status of the command: exit_code 0 is returned, and cmd
\* succeeds, only for a command that terminated with status 0, not when
\* inspect_exec reports no exit code.
C39_ExitCodeIsTheExitStatus ==
  world.backend = "docker" =>
    /\ cwoRes.kind = "ok" =>
         (world.inspect = "some" /\ cwoRes.exit_code = Status(world))
    /\ cmdRes.kind = "ok" => (world.inspect = "some" /\ Status(world) = 0)

\* C35: for every container the docker provider started, once its
\* controller is stopped or dropped a force-removal is issued for it
\* eventually, on the failure paths too, and a build container does not
\* outlive its prepare call: a removal is issued for every running build
\* container.
C35_RemovalIssuedEventually ==
  \A c \in ContainerIds :
    /\ (containers[c].ctl \in {"stopped", "dropped"})
         ~> (containers[c].removals # {})
    /\ (containers[c].use = "build" /\ containers[c].state = "running")
         ~> (containers[c].removals # {})

\* A build container whose controller was dropped without a stop, the
\* removal issued by the spawned task.
C35_Witness ==
  \E c \in ContainerIds :
    /\ containers[c].use = "build"
    /\ containers[c].ctl = "dropped"
    /\ containers[c].removals = {"drop"}

\* C36: in the local-temp backend the directory a call acts in, computed
\* from any working_dir (absolute-looking, relative, with ".." segments),
\* is the workspace root or lies below it.
C36_StaysInsideRoot ==
  (fsBackend = "local" /\ fsLast.op \notin {"none", "stop"})
    => Within(Resolved(fsLast.dir), RootPath)

\* C37: Workspace.init on a workspace whose repository the controller's
\* provision_repositories materialised, which removed the remote origin,
\* completes the path of a repository already present: with no command
\* failing for another reason, update_remote and clean_repository
\* succeed and init returns Ok.
C37_InitAfterProvisionSucceeds ==
  [][\A session \in {"none", "ok"} :
       (/\ gitBackend = "docker"
        /\ hasRepo
        /\ origin = NoOrigin
        /\ WsInit(session, "none"))
         => gitDone' = Done("init", "ok")]_vars

\* C38: when stop() returns an error during destroy_workspace(id),
\* destroy_workspace returns that error and leaves the registry as it
\* was: the id stays registered and listed, and a destroy of a registered
\* id goes on to call stop().
C38_FailedStopKeepsTheEntry ==
  [][\A t \in Tasks :
       /\ DestroyFinish(t, "err")
            => /\ resp'.res.kind = "err"
               /\ workspaces' = workspaces
               /\ req[t].id \in RegistryKeys(workspaces')
       /\ (DestroyStart(t) /\ req[t].id \in RegistryKeys(workspaces))
            => pc'[t] = "stopping"]_vars

\* A destroy that returned the error of stop(), its id still registered.
C38_Witness ==
  /\ resp.req.op = "destroy"
  /\ resp.res.kind = "err"
  /\ resp.req.id \in RegistryKeys(workspaces)

\* C40: no operation of the Workspace deadlocks on the Workspace's own
\* mutex: with calls of the controller that terminate, every operation a
\* caller invokes returns eventually, under any interleaving of the
\* callers of one Workspace.
C40_EveryOperationReturns ==
  \A c \in Callers : (caller[c].pc # "idle") ~> (caller[c].pc = "idle")

============================================================================
